---- MODULE Spec2Model ----
(***************************************************************************)
(* Queen migration engine: the lock-table protocol of the drivers without  *)
(* native advisory locks (drivers/base/tablelock.go and the CockroachDB,   *)
(* YDB and ClickHouse drivers), and the engine's Up / UpSteps / Down /     *)
(* Reset envelope over the Driver interface (drivers/mock).                *)
(*                                                                         *)
(* Time is counted in ticks of 50 ms of the database clock (now(),         *)
(* now64(3), CurrentUtcTimestamp()).                                       *)
(***************************************************************************)
EXTENDS Integers, Sequences, FiniteSets, TLC

\* ------------------------------------------------------------------ bounds
MaxTime == 3
ShortTimeout == 1
LongTimeout == 2
MaxManual == 1
MaxClock == 1
MaxSteps == 2
MaxRegistry == 2
MaxOrder == 4
MaxSessClock == 3
MaxSqlLen == 4
\* Checksum() calls on one Migration instance
MaxCalls == 3
\* existing versions passed to FindNextVersion
MaxExisting == 2

\* ------------------------------------------------- program constants
\* backoff := 50 * time.Millisecond (one tick)
InitialBackoff == 1
\* maxBackoff := 1 * time.Second (twenty ticks)
MaxBackoff == 20

Drivers == {"A", "B"}
NoDriver == "none"
Timeouts == {ShortTimeout, LongTimeout}
\* Lock table with lock_key PRIMARY KEY and an owner_id column (CockroachDB, YDB),
\* or a ReplacingMergeTree ordered by lock_key without owner_id (ClickHouse).
Families == {"cockroachdb", "clickhouse"}
InCall == {"cleanup", "check", "insert", "retry", "sleep"}

VARIABLES
  now,          \* database clock
  family,       \* which lock-table driver the processes use
  lockTable,    \* rows of <table>_lock for lock_key = 'migration_lock'
  pc,           \* per driver: position in Lock / holding / idle
  start,        \* per driver: start := time.Now()
  expiresAt,    \* per driver: expiresAt := time.Now().Add(timeout)
  timeout,      \* per driver: the timeout argument of the running Lock
  backoff,      \* per driver: current backoff
  wakeAt,       \* per driver: when time.After(backoff) fires
  cancelled,    \* per driver: ctx.Done() is closed
  result,       \* per driver: what the last Lock / Unlock returned
  waitingOn,    \* history: the holder that held a live row when the call began
  alone,        \* history: no other driver has been in Lock or holding since the call began
  timedOutBlocked, \* history: the driver's Lock returned LockTimeout behind a live holder
  staleUnlock,  \* history: an Unlock ran while the table held only another owner's row
  manualDeletes \* history: number of out-of-band deletions of the lock row

lockVars == <<now, family, lockTable, pc, start, expiresAt, timeout, backoff,
              wakeAt, cancelled, result, waitingOn, alone, timedOutBlocked,
              staleUnlock, manualDeletes>>

VARIABLES
  skipLock,     \* Config.SkipLock
  initErr,      \* mock driver: SetInitError was called with an error
  lockErr,      \* mock driver: SetLockError was called with an error
  recordErr,    \* mock driver: SetRecordError was called with an error
  locked,       \* mock driver: d.locked
  extHolds,     \* another process using the same driver holds d.locked
  applied,      \* bookkeeping table: set of Applied records
  schema,       \* versions whose up body is committed in the database
  txBody,       \* the open transaction's uncommitted body (a version, or NoVersion)
  epc,          \* engine: position in the running operation
  op,           \* engine: the operation (Up, UpSteps, Down, Reset)
  steps,        \* engine: the n of UpSteps(n) / Down(n)
  queue,        \* engine: migrations still to visit
  cur,          \* engine: the migration being executed
  acquired,     \* engine: Lock succeeded, release is scheduled
  opResult,     \* engine: what the operation returns
  errVersion,   \* engine: the Version named by the returned MigrationError
  lockCalls,    \* history: Driver.Lock calls of the running operation
  unlockCalls,  \* history: Driver.Unlock calls of the running operation
  bodiesRun,    \* history: versions whose body was executed by the running operation
  startApplied, \* history: the bookkeeping table when the operation began
  prevUpOk,     \* history: the operation before this one was an Up that returned success
  registry,     \* Registry: the registered migrations in insertion order
  recordLog,    \* history: versions of the records present, in the order of their Record calls
  appliedFrom   \* history: the migrations, as registered then, that the records of an earlier release were written from

engVars == <<skipLock, initErr, lockErr, recordErr, locked, extHolds, applied,
             schema, txBody, epc, op, steps, queue, cur, acquired, opResult,
             errVersion, lockCalls, unlockCalls, bodiesRun, startApplied, prevUpOk,
             registry, recordLog, appliedFrom>>

VARIABLES
  sortedView    \* Registry: the cached result of Sorted(), or NotCached after Add

NotCached == <<"not cached">>

sortVars == <<sortedView>>

VARIABLES
  xpc,          \* Exec: position of the running call
  dbRows,       \* Exec: the rows committed in the database
  txWrites,     \* Exec: the rows written in the open transaction
  fnErr,        \* Exec: what the callback returned
  rollbackErr,  \* Exec: what tx.Rollback returned
  execResult,   \* Exec: what Exec returned
  commitCalls,  \* history: tx.Commit calls of the call
  rollbackCalls, \* history: tx.Rollback calls of the call
  rowsAtBegin   \* history: the committed rows when the call began

execVars == <<xpc, dbRows, txWrites, fnErr, rollbackErr, execResult, commitCalls,
              rollbackCalls, rowsAtBegin>>

VARIABLES
  sKind,        \* session lock: the driver package of the Driver (postgres, mysql)
  sClock,       \* session lock: time, in ticks of half a second
  sHeldBy,      \* session lock: the database session that holds the migration lock
  sConn,        \* session lock: d.conn, the stored dedicated connection
  callConn,     \* session lock: conn, the connection of the running Lock call
  spc,          \* session lock: position of the driver
  sStart,       \* session lock: when the last Lock was called
  sTimeout,     \* session lock: the timeout argument of the last Lock
  sResult,      \* session lock: what the last Lock / Unlock returned
  acquiredOn,   \* history: the connection the acquiring statement ran on
  releasedOn,   \* history: the connection the releasing statement ran on
  otherFreedAt  \* history: when the other process last released the lock

sessVars == <<sKind, sClock, sHeldBy, sConn, callConn, spc, sStart, sTimeout,
              sResult, acquiredOn, releasedOn, otherFreedAt>>

VARIABLES
  sqlBody,      \* a SQL body as first written
  sqlReformatted \* the same body after edits of its whitespace only

sumVars == <<sqlBody, sqlReformatted>>

VARIABLES
  cpc,          \* CLI: how far the configuration of the command has been loaded
  flags,        \* CLI: the command line: per setting a value, or NotGiven
  environ,      \* CLI: QUEEN_DRIVER, QUEEN_DSN, QUEEN_TABLE ("" when unset)
  configFile,   \* CLI: the environment selected from .queen.yaml
  useConfig,    \* CLI: --use-config with --env
  appConfig     \* CLI: app.config.Driver, .DSN, .Table

cfgVars == <<cpc, flags, environ, configFile, useConfig, appConfig>>

VARIABLES
  kpc,          \* CLI command: "start", "check", "setup", "run", "done"
  command,      \* CLI command: "up" or "down"
  yes,          \* CLI command: --yes
  kUseConfig,   \* CLI command: --use-config
  kEnv,         \* CLI command: --env ("" when not given)
  fileEnvs,     \* .queen.yaml: per environment its require_confirmation
  fileLoaded,   \* app.config.configFile # nil
  prompted,     \* the user has been asked for confirmation
  answer,       \* what the user typed ("" before any prompt)
  dbOpened,     \* a database connection has been opened
  migrated,     \* q.Up / q.UpSteps / q.Down has been called
  cmdErr        \* the error RunE returned ("" for nil)

cmdVars == <<kpc, command, yes, kUseConfig, kEnv, fileEnvs, fileLoaded,
             prompted, answer, dbOpened, migrated, cmdErr>>

VARIABLES
  inst,         \* one Migration instance: its exported fields
  checksumOnce, \* the instance's checksumOnce: "nil" or "done"
  mChecksum,    \* the instance's checksum field
  returned,     \* history: what the Checksum() calls on the instance returned
  staleCall     \* history: a call was made when the fields gave another checksum

memoVars == <<inst, checksumOnce, mChecksum, returned, staleCall>>

VARIABLES
  lastDir,      \* history: the direction of the last executeUp / executeDown
  lastRan,      \* history: the forms (callback, SQL text) that call executed
  lastErr       \* history: what that call returned

runVars == <<lastDir, lastRan, lastErr>>

VARIABLES
  pinKind,      \* dedicated connection: the driver package (mysql, mssql)
  dConn,        \* dedicated connection: d.conn
  inUse,        \* connections taken from the pool by d.DB.Conn and not closed
  lockSession,  \* the database session that holds the named / application lock
  pinCall,      \* the last call on the driver: Lock or Unlock
  pinResult     \* what that call returned

pinVars == <<pinKind, dConn, inUse, lockSession, pinCall, pinResult>>

VARIABLES
  npc,          \* naming: "idle", or "found" after FindNextVersion returned
  ncPattern,    \* naming: NamingConfig.Pattern
  ncPadding,    \* naming: NamingConfig.Padding
  existingVersions, \* naming: the argument of FindNextVersion
  nextVersion   \* naming: the version FindNextVersion returned

namingVars == <<npc, ncPattern, ncPadding, existingVersions, nextVersion>>

\* The state of the sections that follow the CLI configuration
lateVars == <<cmdVars, memoVars, runVars, pinVars, namingVars>>

\* The auxiliary state other than the sorted view
auxRest == <<execVars, sessVars, sumVars, cfgVars, lateVars>>

auxVars == <<sortVars, auxRest>>

\* No Migration instance has been built
MemoIdle ==
  /\ inst = <<>>
  /\ checksumOnce = "nil"
  /\ mChecksum = <<>>
  /\ returned = <<>>
  /\ staleCall = FALSE

\* No body has been executed
RunIdle ==
  /\ lastDir = "none"
  /\ lastRan = {}
  /\ lastErr = "none"

FileEnvNames == {"staging", "production"}

\* A process that has parsed no command line yet: config: &Config{}
CmdIdle ==
  /\ kpc = "start"
  /\ command = "up"
  /\ yes = FALSE
  /\ kUseConfig = FALSE
  /\ kEnv = ""
  /\ fileEnvs = [e \in FileEnvNames |-> FALSE]
  /\ fileLoaded = FALSE
  /\ prompted = FALSE
  /\ answer = ""
  /\ dbOpened = FALSE
  /\ migrated = FALSE
  /\ cmdErr = ""

\* Exec before its first call, on an empty database
ExecIdle ==
  /\ xpc = "idle"
  /\ dbRows = {}
  /\ txWrites = {}
  /\ fnErr = "none"
  /\ rollbackErr = "none"
  /\ execResult = "none"
  /\ commitCalls = 0
  /\ rollbackCalls = 0
  /\ rowsAtBegin = {}

NoConn == "no connection"
OtherProcess == "session of another process"

\* No driver with a session-bound lock has been constructed
SessIdle ==
  /\ sKind = "none"
  /\ sClock = 0
  /\ sHeldBy = NoConn
  /\ sConn = NoConn
  /\ callConn = NoConn
  /\ spc = "closed"
  /\ sStart = 0
  /\ sTimeout = 0
  /\ sResult = "none"
  /\ acquiredOn = NoConn
  /\ releasedOn = NoConn
  /\ otherFreedAt = -1

\* FindNextVersion has not been called
NamingIdle ==
  /\ npc = "idle"
  /\ ncPattern = ""
  /\ ncPadding = 0
  /\ existingVersions = <<>>
  /\ nextVersion = <<>>

\* No driver with a dedicated connection has been built
PinIdle ==
  /\ pinKind = "none"
  /\ dConn = NoConn
  /\ inUse = {}
  /\ lockSession = NoConn
  /\ pinCall = "none"
  /\ pinResult = "none"

\* The state outside the lock table, the mock driver and the engine, before use
AuxIdle ==
  /\ sortedView = NotCached
  /\ ExecIdle
  /\ SessIdle
  /\ sqlBody = <<>>
  /\ sqlReformatted = <<>>
  /\ cpc = "start"
  /\ flags = [driver |-> "", dsn |-> "", table |-> ""]
  /\ environ = [driver |-> "", dsn |-> "", table |-> ""]
  /\ configFile = [driver |-> "", dsn |-> "", table |-> ""]
  /\ useConfig = FALSE
  /\ appConfig = [driver |-> "", dsn |-> "", table |-> ""]
  /\ CmdIdle
  /\ MemoIdle
  /\ RunIdle
  /\ PinIdle
  /\ NamingIdle

vars == <<lockVars, engVars, auxVars>>

Min(a, b) == IF a < b THEN a ELSE b

\* ---------------------------------------------------------- the queries
\* CleanupQuery: DELETE ... WHERE lock_key = $1 AND expires_at < now()
\* the driver of cockroachdb.go, which runs the loop itself over a table without
\* owner_id: DELETE ... WHERE lock_key = $1 AND expires_at <= now()
CleanupDeletes(r) ==
  IF family = "cockroachdb_inline" THEN r.expiresAt <= now ELSE r.expiresAt < now

\* CheckQuery: SELECT 1 ... WHERE lock_key = $1 AND expires_at >= now() LIMIT 1
CheckActive(r) == r.expiresAt >= now

HasActiveLockNever == FALSE
\* ScanFunc over the row of CheckQuery: true when an active lock exists
HasActiveLock == \E r \in lockTable : CheckActive(r)

UnlockDeletesAnyOwner(r, d) == TRUE
\* unlockQuery: DELETE ... WHERE lock_key = $1 AND owner_id = $2 (CockroachDB, YDB);
\* ALTER TABLE ... DELETE WHERE lock_key = ? (ClickHouse)
UnlockDeletes(r, d) == IF family = "cockroachdb" THEN r.owner = d ELSE TRUE

\* InsertQuery: lock_key is the PRIMARY KEY of the CockroachDB / YDB table, so the
\* INSERT fails while any row of the key is left; ReplacingMergeTree takes the row
\* and FINAL shows the last one inserted.
InsertFails == family # "clickhouse" /\ lockTable # {}

\* A return from Lock or Unlock: the call's locals go out of scope; a holder keeps
\* the expiresAt it wrote into its row.
Returned(d, res) ==
  /\ pc' = [pc EXCEPT ![d] = IF res = "ok" THEN "holding" ELSE "idle"]
  /\ result' = [result EXCEPT ![d] = res]
  /\ expiresAt' = [expiresAt EXCEPT ![d] = IF res = "ok" THEN @ ELSE 0]
  /\ start' = [start EXCEPT ![d] = 0]
  /\ timeout' = [timeout EXCEPT ![d] = 0]
  /\ backoff' = [backoff EXCEPT ![d] = InitialBackoff]
  /\ wakeAt' = [wakeAt EXCEPT ![d] = 0]
  /\ cancelled' = [cancelled EXCEPT ![d] = FALSE]

CallLocals == <<start, expiresAt, timeout, backoff, wakeAt, cancelled>>

Blocked(d) ==
  /\ waitingOn[d] # NoDriver
  /\ pc[waitingOn[d]] = "holding"
  /\ expiresAt[waitingOn[d]] >= now
  /\ \E r \in lockTable : r.owner = waitingOn[d]

\* ------------------------------------------------- AcquireTableLock
LockCall(d, t) ==
  /\ UNCHANGED <<engVars, auxVars>>
  /\ pc[d] = "idle"
  /\ pc' = [pc EXCEPT ![d] = "cleanup"]
  /\ start' = [start EXCEPT ![d] = now]
  /\ expiresAt' = [expiresAt EXCEPT ![d] = now + t]
  /\ timeout' = [timeout EXCEPT ![d] = t]
  /\ backoff' = [backoff EXCEPT ![d] = InitialBackoff]
  /\ cancelled' = [cancelled EXCEPT ![d] = FALSE]
  /\ result' = [result EXCEPT ![d] = "none"]
  /\ waitingOn' = [waitingOn EXCEPT ![d] =
        IF \E a \in Drivers \ {d} : pc[a] = "holding" /\ expiresAt[a] >= now
                                    /\ \E r \in lockTable : r.owner = a
        THEN CHOOSE a \in Drivers \ {d} : pc[a] = "holding" /\ expiresAt[a] >= now
                                    /\ \E r \in lockTable : r.owner = a
        ELSE NoDriver]
  /\ alone' = [x \in Drivers |->
        IF x = d THEN \A a \in Drivers \ {d} : pc[a] = "idle" ELSE FALSE]
  /\ UNCHANGED <<now, family, lockTable, wakeAt, timedOutBlocked, staleUnlock,
                 manualDeletes>>

\* Step 1: _, _ = db.ExecContext(ctx, config.CleanupQuery, ...), errors ignored
Cleanup(d) ==
  /\ UNCHANGED <<engVars, auxVars>>
  /\ pc[d] = "cleanup"
  /\ lockTable' = IF cancelled[d] THEN lockTable
                  ELSE {r \in lockTable : ~CleanupDeletes(r)}
  /\ pc' = [pc EXCEPT ![d] = "check"]
  /\ UNCHANGED <<now, family, start, expiresAt, timeout, backoff, wakeAt,
                 cancelled, result, waitingOn, alone, timedOutBlocked,
                 staleUnlock, manualDeletes>>

\* Step 2: hasLock, err := config.ScanFunc(db.QueryRowContext(ctx, config.CheckQuery))
Check(d) ==
  /\ UNCHANGED <<engVars, auxVars>>
  /\ pc[d] = "check"
  /\ pc' = [pc EXCEPT ![d] =
        IF cancelled[d] \/ HasActiveLock THEN "retry" ELSE "insert"]
  /\ UNCHANGED <<now, family, lockTable, start, expiresAt, timeout, backoff,
                 wakeAt, cancelled, result, waitingOn, alone, timedOutBlocked,
                 staleUnlock, manualDeletes>>

\* Step 3: db.ExecContext(ctx, config.InsertQuery, expiresAt); nil -> return nil
Insert(d) ==
  /\ UNCHANGED <<engVars, auxVars>>
  /\ pc[d] = "insert"
  /\ IF cancelled[d] \/ InsertFails
     THEN /\ pc' = [pc EXCEPT ![d] = "retry"]
          /\ UNCHANGED <<lockTable, result, CallLocals>>
     ELSE /\ lockTable' = IF family = "cockroachdb"
                          THEN lockTable \cup {[owner |-> d, expiresAt |-> expiresAt[d]]}
                          ELSE {[owner |-> d, expiresAt |-> expiresAt[d]]}
          /\ Returned(d, "ok")
  /\ UNCHANGED <<now, family, waitingOn, alone, timedOutBlocked, staleUnlock,
                 manualDeletes>>

\* retry: if time.Since(start) >= timeout { return queen.ErrLockTimeout }
Retry(d) ==
  /\ UNCHANGED <<engVars, auxVars>>
  /\ pc[d] = "retry"
  /\ IF now - start[d] >= timeout[d]
     THEN /\ Returned(d, "timeout")
          /\ timedOutBlocked' = [timedOutBlocked EXCEPT ![d] = @ \/ Blocked(d)]
     ELSE /\ pc' = [pc EXCEPT ![d] = "sleep"]
          /\ wakeAt' = [wakeAt EXCEPT ![d] = now + backoff[d]]
          /\ UNCHANGED <<result, timedOutBlocked, start, expiresAt, timeout,
                         backoff, cancelled>>
  /\ UNCHANGED <<now, family, lockTable, waitingOn, alone, staleUnlock,
                 manualDeletes>>

\* case <-time.After(backoff): backoff *= 2, capped at maxBackoff
Wake(d) ==
  /\ UNCHANGED <<engVars, auxVars>>
  /\ pc[d] = "sleep"
  /\ now >= wakeAt[d]
  /\ backoff' = [backoff EXCEPT ![d] = Min(2 * @, MaxBackoff)]
  /\ pc' = [pc EXCEPT ![d] = "cleanup"]
  /\ UNCHANGED <<now, family, lockTable, start, expiresAt, timeout, wakeAt,
                 cancelled, result, waitingOn, alone, timedOutBlocked,
                 staleUnlock, manualDeletes>>

\* case <-ctx.Done(): return ctx.Err()
CtxDone(d) ==
  /\ UNCHANGED <<engVars, auxVars>>
  /\ pc[d] = "sleep"
  /\ cancelled[d]
  /\ Returned(d, "cancelled")
  /\ UNCHANGED <<now, family, lockTable, waitingOn, alone, timedOutBlocked,
                 staleUnlock, manualDeletes>>

\* The caller cancels the context of a running Lock.
Cancel(d) ==
  /\ UNCHANGED <<engVars, auxVars>>
  /\ pc[d] \in InCall
  /\ ~cancelled[d]
  /\ cancelled' = [cancelled EXCEPT ![d] = TRUE]
  /\ UNCHANGED <<now, family, lockTable, pc, start, expiresAt, timeout, backoff,
                 wakeAt, result, waitingOn, alone, timedOutBlocked, staleUnlock,
                 manualDeletes>>

\* ------------------------------------------------------------ Unlock
Unlock(d) ==
  /\ UNCHANGED <<engVars, auxVars>>
  /\ pc[d] = "holding"
  /\ lockTable' = {r \in lockTable : ~UnlockDeletes(r, d)}
  /\ Returned(d, "unlocked")
  /\ waitingOn' = [x \in Drivers |-> IF waitingOn[x] = d THEN NoDriver ELSE waitingOn[x]]
  /\ staleUnlock' = (staleUnlock \/
        (lockTable # {} /\ \A r \in lockTable : r.owner # d))
  /\ UNCHANGED <<now, family, alone, timedOutBlocked, manualDeletes>>

\* The lock table after the unlockQuery of driver d
AfterUnlock(tbl, d) == {r \in tbl : ~UnlockDeletes(r, d)}

\* Unlock on a driver that is not between a successful Lock and its Unlock:
\* never acquired, or already released. The query runs all the same.
UnlockNotHeld(d) ==
  /\ UNCHANGED <<engVars, auxVars>>
  /\ pc[d] = "idle"
  /\ result[d] # "unlocked" \/ lockTable # {}
  /\ lockTable' = AfterUnlock(lockTable, d)
  /\ result' = [result EXCEPT ![d] = "unlocked"]
  /\ staleUnlock' = (staleUnlock \/
        (lockTable # {} /\ \A r \in lockTable : r.owner # d))
  /\ UNCHANGED <<now, family, pc, start, expiresAt, timeout, backoff, wakeAt,
                 cancelled, waitingOn, alone, timedOutBlocked, manualDeletes>>

\* ------------------------------------------------------- environment
Tick ==
  /\ UNCHANGED <<engVars, auxVars>>
  /\ now < MaxTime
  /\ now' = now + 1
  /\ UNCHANGED <<family, lockTable, pc, start, expiresAt, timeout, backoff,
                 wakeAt, cancelled, result, waitingOn, alone, timedOutBlocked,
                 staleUnlock, manualDeletes>>

\* DELETE FROM queen_migrations_lock WHERE lock_key = 'migration_lock', issued by
\* an operator (or the table's TTL) while a driver still believes it holds the lock.
ManualDelete ==
  /\ UNCHANGED <<engVars, auxVars>>
  /\ manualDeletes < MaxManual
  /\ lockTable # {}
  /\ lockTable' = {}
  /\ manualDeletes' = manualDeletes + 1
  /\ UNCHANGED <<now, family, pc, start, expiresAt, timeout, backoff, wakeAt,
                 cancelled, result, waitingOn, alone, timedOutBlocked, staleUnlock>>

LockInit ==
  /\ now = 0
  /\ family \in Families
  /\ lockTable = {}
  /\ pc = [d \in Drivers |-> "idle"]
  /\ start = [d \in Drivers |-> 0]
  /\ expiresAt = [d \in Drivers |-> 0]
  /\ timeout = [d \in Drivers |-> 0]
  /\ backoff = [d \in Drivers |-> InitialBackoff]
  /\ wakeAt = [d \in Drivers |-> 0]
  /\ cancelled = [d \in Drivers |-> FALSE]
  /\ result = [d \in Drivers |-> "none"]
  /\ waitingOn = [d \in Drivers |-> NoDriver]
  /\ alone = [d \in Drivers |-> FALSE]
  /\ timedOutBlocked = [d \in Drivers |-> FALSE]
  /\ staleUnlock = FALSE
  /\ manualDeletes = 0

LockNext ==
  \/ \E d \in Drivers, t \in Timeouts : LockCall(d, t)
  \/ \E d \in Drivers : Cleanup(d)
  \/ \E d \in Drivers : Check(d)
  \/ \E d \in Drivers : Insert(d)
  \/ \E d \in Drivers : Retry(d)
  \/ \E d \in Drivers : Wake(d)
  \/ \E d \in Drivers : CtxDone(d)
  \/ \E d \in Drivers : Cancel(d)
  \/ \E d \in Drivers : Unlock(d)
  \/ Tick

\* ================================================================ engine
\* Texts (Version, Name, SQL bodies, ManualChecksum) are sequences of
\* one-character strings; the empty text is <<>>.
NoText == <<>>
V1 == <<"1">>
V2 == <<"2">>
V10 == <<"1", "0">>
NoVersion == <<>>
TagV1 == <<"v", "1">>

\* queen.M{Version, Name, UpSQL, DownSQL, UpFunc, DownFunc, ManualChecksum}
\* (a callback is modelled by its presence)
M(version, name, upSQL, downSQL, upFunc, downFunc, manualChecksum) ==
  [version |-> version, name |-> name, upSQL |-> upSQL, downSQL |-> downSQL,
   upFunc |-> upFunc, downFunc |-> downFunc, manualChecksum |-> manualChecksum]

\* The registry in insertion order: 10, 2, 1. Every migration is a pair of
\* callbacks with a ManualChecksum.
Registry == << M(V10, <<"c">>, NoText, NoText, TRUE, TRUE, TagV1),
               M(V2,  <<"b">>, NoText, NoText, TRUE, TRUE, TagV1),
               M(V1,  <<"a">>, NoText, NoText, TRUE, TRUE, TagV1) >>

Registered == {registry[i] : i \in DOMAIN registry}

RegVersions == {m.version : m \in Registered}

MigrationOf(v) == CHOOSE m \in Registered : m.version = v

HasRollbackAlways(m) == TRUE
\* Migration.HasRollback
HasRollback(m) == m.downSQL # NoText \/ m.downFunc

\* strings.TrimSpace / unicode.IsSpace
Spaces == {" ", "\t", "\n"}

RECURSIVE TrimLeft(_)
TrimLeft(t) == IF t # <<>> /\ Head(t) \in Spaces THEN TrimLeft(Tail(t)) ELSE t

RECURSIVE TrimRight(_)
TrimRight(t) == IF t # <<>> /\ t[Len(t)] \in Spaces
                THEN TrimRight(SubSeq(t, 1, Len(t) - 1)) ELSE t

TrimSpace(t) == TrimRight(TrimLeft(t))

\* strings.Split(s, "\n"): the lines of s, at least one
RECURSIVE SplitLines(_, _)
SplitLines(t, line) ==
  IF t = <<>> THEN <<line>>
  ELSE IF Head(t) = "\n" THEN <<line>> \o SplitLines(Tail(t), <<>>)
  ELSE SplitLines(Tail(t), Append(line, Head(t)))

\* The loop of normalizeWhitecpace: trim each line, keep one of consecutive
\* empty lines
RECURSIVE KeepLines(_, _)
KeepLines(lines, prevEmpty) ==
  IF lines = <<>> THEN <<>>
  ELSE LET trimmed == TrimSpace(Head(lines))
       IN IF trimmed = <<>>
          THEN (IF prevEmpty THEN <<>> ELSE << <<>> >>) \o KeepLines(Tail(lines), TRUE)
          ELSE <<trimmed>> \o KeepLines(Tail(lines), FALSE)

\* strings.Join(result, "\n")
RECURSIVE JoinLines(_)
JoinLines(lines) ==
  IF lines = <<>> THEN <<>>
  ELSE IF Len(lines) = 1 THEN Head(lines)
  ELSE Head(lines) \o <<"\n">> \o JoinLines(Tail(lines))

\* checksum.normalizeWhitecpace
NormalizeWhitespace(t) == TrimSpace(JoinLines(KeepLines(SplitLines(t, <<>>), FALSE)))

\* sha256 in hex, taken as collision-free: the digest stands for the bytes hashed
Sha256Hex(bytes) == <<"#">> \o bytes

\* checksum.Calculate(UpSQL, DownSQL): each part normalized, written to one hash
Calculate(up, down) == Sha256Hex(NormalizeWhitespace(up) \o NormalizeWhitespace(down))

\* const noChecksumMarker
NoChecksumMarker == <<"n", "o", "-", "c", "h", "e", "c", "k", "s", "u", "m", "-", "g", "o", "-", "f", "u", "n", "c">>

ChecksumMarkerOnly(m) == NoChecksumMarker
\* Migration.Checksum (first call on an instance)
Checksum(m) ==
  IF m.manualChecksum # NoText THEN m.manualChecksum
  ELSE IF m.upSQL # NoText \/ m.downSQL # NoText THEN Calculate(m.upSQL, m.downSQL)
  ELSE NoChecksumMarker

DigitValue(c) ==
  CASE c = "0" -> 0 [] c = "1" -> 1 [] c = "2" -> 2 [] c = "3" -> 3 [] c = "4" -> 4
    [] c = "5" -> 5 [] c = "6" -> 6 [] c = "7" -> 7 [] c = "8" -> 8 [] c = "9" -> 9

RECURSIVE NumValue(_)
NumValue(ds) == IF ds = <<>> THEN 0
                ELSE 10 * NumValue(SubSeq(ds, 1, Len(ds) - 1)) + DigitValue(ds[Len(ds)])

\* Digit runs compared character by character: "10" before "2"
RECURSIVE CharByCharLess(_, _)
CharByCharLess(a, b) ==
  IF b = <<>> THEN FALSE
  ELSE IF a = <<>> THEN TRUE
  ELSE IF a[1] # b[1] THEN DigitValue(a[1]) < DigitValue(b[1])
  ELSE CharByCharLess(Tail(a), Tail(b))
\* Natural order of digit runs: by integer value, then the shorter text first
NaturalLess(a, b) ==
  \/ NumValue(a) < NumValue(b)
  \/ NumValue(a) = NumValue(b) /\ Len(a) < Len(b)

RECURSIVE SortSet(_)
SortSet(S) == IF S = {} THEN <<>>
              ELSE LET m == CHOOSE x \in S : \A y \in S \ {x} : NaturalLess(x, y)
                   IN <<m>> \o SortSet(S \ {m})

\* Registry.Sorted()
Sorted == SortSet(RegVersions)

\* --------------------------------------------- natural-order comparator
Digits == {"0", "1", "2", "3", "4", "5", "6", "7", "8", "9"}

IsDigit(c) == c \in Digits

\* Codepoints of the characters that occur in the versions of the model
CodePoint(c) ==
  CASE c = "." -> 46 [] c \in Digits -> 48 + DigitValue(c) [] c = "A" -> 65
    [] c = "_" -> 95 [] c = "a" -> 97 [] c = "b" -> 98 [] c = "e" -> 101
    [] c = "r" -> 114 [] c = "s" -> 115 [] c = "u" -> 117 [] c = "v" -> 118

\* Length of the maximal run of digits, or of non-digits, that s starts with
RECURSIVE RunLen(_)
RunLen(s) ==
  IF Len(s) <= 1 THEN Len(s)
  ELSE IF IsDigit(s[1]) = IsDigit(s[2]) THEN 1 + RunLen(Tail(s))
  ELSE 1

\* Tokenize: the maximal runs of digits and of non-digits, in order
RECURSIVE Tokens(_)
Tokens(s) ==
  IF s = <<>> THEN <<>>
  ELSE <<SubSeq(s, 1, RunLen(s))>> \o Tokens(SubSeq(s, RunLen(s) + 1, Len(s)))

\* Non-digit run vs non-digit run: codepoint order, a proper prefix first
RECURSIVE CodepointLess(_, _)
CodepointLess(a, b) ==
  IF b = <<>> THEN FALSE
  ELSE IF a = <<>> THEN TRUE
  ELSE IF a[1] # b[1] THEN CodePoint(a[1]) < CodePoint(b[1])
  ELSE CodepointLess(Tail(a), Tail(b))

\* Digit runs by value only: "01" and "1" are then the same key
NumericLessOnly(a, b) ==
  IF IsDigit(a[1]) /\ IsDigit(b[1]) THEN NumValue(a) < NumValue(b)
  ELSE IF IsDigit(a[1]) # IsDigit(b[1]) THEN IsDigit(a[1])
  ELSE CodepointLess(a, b)
\* One token against one token
TokenLess(a, b) ==
  IF IsDigit(a[1]) /\ IsDigit(b[1]) THEN NaturalLess(a, b)
  ELSE IF IsDigit(a[1]) # IsDigit(b[1]) THEN IsDigit(a[1])
  ELSE CodepointLess(a, b)

\* Token by token; when one is exhausted first, the shorter orders first
RECURSIVE TokensLess(_, _)
TokensLess(ta, tb) ==
  IF tb = <<>> THEN FALSE
  ELSE IF ta = <<>> THEN TRUE
  ELSE IF TokenLess(ta[1], tb[1]) THEN TRUE
  ELSE IF TokenLess(tb[1], ta[1]) THEN FALSE
  ELSE TokensLess(Tail(ta), Tail(tb))

\* The comparator on Versions
VersionLess(a, b) == TokensLess(Tokens(a), Tokens(b))

\* Stable insertion of x into the sorted q: after every element not greater
RECURSIVE InsertSorted(_, _)
InsertSorted(q, x) ==
  IF q = <<>> THEN <<x>>
  ELSE IF VersionLess(x, q[1]) THEN <<x>> \o q
  ELSE <<q[1]>> \o InsertSorted(Tail(q), x)

\* A stable sort of the sequence q of Versions by the comparator
RECURSIVE SortVersions(_)
SortVersions(q) ==
  IF q = <<>> THEN <<>>
  ELSE InsertSorted(SortVersions(SubSeq(q, 1, Len(q) - 1)), q[Len(q)])

\* The Versions of a registry in insertion order
VersionsOf(reg) == [i \in DOMAIN reg |-> reg[i].version]

SeqsOf(S) == {f \in [1..Cardinality(S) -> S] : \A i, j \in 1..Cardinality(S) : f[i] = f[j] => i = j}

Reverse(q) == [i \in 1..Len(q) |-> q[Len(q) + 1 - i]]

Take(q, n) == SubSeq(q, 1, Min(n, Len(q)))

AppliedVersions(tbl) == {r.version : r \in tbl}

\* ------------------------------------------------------- mock driver
GetAppliedNothing == {<<>>}
GetAppliedUnsorted == SeqsOf(applied)
\* Driver.GetApplied: the records sorted by AppliedAt (sort.Slice over the map's
\* values: records with equal AppliedAt come in any order)
GetApplied ==
  {q \in SeqsOf(applied) :
     \A i, j \in 1..Len(q) : i < j => ~(q[j].appliedAt < q[i].appliedAt)}

RecordStoredDropped(m) == applied
\* Driver.Record: d.applied[m.Version] = Applied{..., AppliedAt: time.Now(), Checksum: m.Checksum()}
RecordStored(m) ==
  {r \in applied : r.version # m.version}
     \cup {[version |-> m.version, appliedAt |-> now, checksum |-> Checksum(m)]}

RemoveStoredNothing(v) == applied
\* Driver.Remove: delete(d.applied, version)
RemoveStored(v) == {r \in applied : r.version # v}

LockFailsNever == FALSE
\* Driver.Lock fails: if d.lockErr != nil { return d.lockErr };
\* if d.locked { return ErrLockTimeout }
LockFails == lockErr \/ locked

LockGrantsWithoutFlag == locked
\* Driver.Lock on success: d.locked = true
LockGrants == TRUE

UnlockKeepsFlag == locked
\* Driver.Unlock: d.locked = false
UnlockReleases == FALSE

Ops == {"Up", "UpSteps", "Down", "Reset"}

\* The n of UpSteps(n) and Down(n): negative, zero and positive
StepArgs == (-1)..MaxSteps

\* A mutating operation begins: step 1 of the envelope follows.
StartOp(o, n) ==
  /\ UNCHANGED <<auxVars, lockVars, registry, recordLog, appliedFrom>>
  /\ epc = "idle"
  /\ (o \in {"Up", "Reset"}) => n = 0
  /\ epc' = "init"
  /\ op' = o
  /\ steps' = n
  /\ opResult' = "none"
  /\ errVersion' = NoVersion
  /\ acquired' = FALSE
  /\ lockCalls' = 0
  /\ unlockCalls' = 0
  /\ bodiesRun' = <<>>
  /\ startApplied' = applied
  /\ prevUpOk' = (op = "Up" /\ opResult = "ok")
  /\ UNCHANGED <<skipLock, initErr, lockErr, recordErr, locked, extHolds, applied,
                 schema, txBody, queue, cur>>

\* The operation returns res (after the scheduled release, if any).
Finish(res, v) ==
  /\ opResult' = res
  /\ errVersion' = v
  /\ queue' = <<>>
  /\ cur' = NoVersion

\* Driver.Init: if d.initErr != nil { return d.initErr }
EngInit ==
  /\ UNCHANGED <<auxVars, lockVars, registry, recordLog, appliedFrom>>
  /\ epc = "init"
  /\ IF initErr
     THEN /\ epc' = "idle"
          /\ Finish("InitError", NoVersion)
     ELSE /\ epc' = IF skipLock THEN "load" ELSE "lock"
          /\ UNCHANGED <<opResult, errVersion, queue, cur>>
  /\ UNCHANGED <<skipLock, initErr, lockErr, recordErr, locked, extHolds, applied,
                 schema, txBody, op, steps, acquired, lockCalls, unlockCalls,
                 bodiesRun, startApplied, prevUpOk>>

\* Driver.Lock: lockErr, then ErrLockTimeout when d.locked, else d.locked = true.
\* A failure is returned as LockTimeout, without retry.
EngLock ==
  /\ UNCHANGED <<auxVars, lockVars, registry, recordLog, appliedFrom>>
  /\ epc = "lock"
  /\ lockCalls' = lockCalls + 1
  /\ IF LockFails
     THEN /\ epc' = "idle"
          /\ Finish("LockTimeout", NoVersion)
          /\ UNCHANGED <<locked, acquired>>
     ELSE /\ locked' = LockGrants
          /\ acquired' = TRUE
          /\ epc' = "load"
          /\ UNCHANGED <<opResult, errVersion, queue, cur>>
  /\ UNCHANGED <<skipLock, initErr, lockErr, recordErr, extHolds, applied, schema,
                 txBody, op, steps, unlockCalls, bodiesRun, startApplied, prevUpOk>>

\* The migrations the operation will visit, from one GetApplied result.
Plan(res) ==
  LET pending == SortSet(RegVersions \ {res[i].version : i \in DOMAIN res})
      newestFirst == [i \in DOMAIN res |-> Reverse(res)[i].version]
  IN CASE op = "Up" -> pending
       [] op = "UpSteps" -> IF steps <= 0 THEN <<>> ELSE Take(pending, steps)
       [] op = "Down" -> IF steps <= 0 THEN <<>> ELSE Take(newestFirst, steps)
       [] op = "Reset" -> newestFirst

\* Refresh appliedCache from the driver and select the migrations.
EngLoad ==
  /\ UNCHANGED <<auxVars, lockVars, registry, recordLog, appliedFrom>>
  /\ epc = "load"
  /\ \E res \in GetApplied : queue' = Plan(res)
  /\ epc' = "next"
  /\ UNCHANGED <<skipLock, initErr, lockErr, recordErr, locked, extHolds, applied,
                 schema, txBody, op, steps, cur, acquired, opResult, errVersion,
                 lockCalls, unlockCalls, bodiesRun, startApplied, prevUpOk>>

\* Loop head: the next migration, or the end of the batch.
EngNext ==
  /\ UNCHANGED <<auxVars, lockVars, registry, recordLog, appliedFrom>>
  /\ epc = "next"
  /\ IF queue = <<>>
     THEN /\ epc' = "unlock"
          /\ Finish("ok", NoVersion)
     ELSE /\ cur' = Head(queue)
          /\ queue' = Tail(queue)
          /\ IF Head(queue) \notin RegVersions
             THEN /\ epc' = "unlock"
                  /\ opResult' = "MigrationNotFound"
                  /\ errVersion' = Head(queue)
             ELSE IF op \in {"Down", "Reset"} /\ ~HasRollback(MigrationOf(Head(queue)))
             THEN /\ epc' = "unlock"
                  /\ opResult' = "NoRollback"
                  /\ errVersion' = Head(queue)
             ELSE /\ epc' = "body"
                  /\ UNCHANGED <<opResult, errVersion>>
  /\ UNCHANGED <<skipLock, initErr, lockErr, recordErr, locked, extHolds, applied,
                 schema, txBody, op, steps, acquired, lockCalls, unlockCalls,
                 bodiesRun, startApplied, prevUpOk>>

\* executeUp: UpFunc, else UpSQL, else ErrInvalidMigration
ExecuteUpRuns(m) == m.upFunc \/ m.upSQL # NoText

\* executeDown: DownFunc, else DownSQL, else ErrInvalidMigration
ExecuteDownRuns(m) == m.downFunc \/ m.downSQL # NoText

\* The running migration has a body for the operation's direction
BodyRuns == IF op \in {"Up", "UpSteps"} THEN ExecuteUpRuns(MigrationOf(cur))
            ELSE ExecuteDownRuns(MigrationOf(cur))

\* Driver.Exec: BeginTx, then the callback runs the body (executeUp / executeDown)
\* in the transaction; an error of the body rolls the transaction back.
EngBody(ok) ==
  /\ UNCHANGED <<auxVars, lockVars, registry, recordLog, appliedFrom>>
  /\ epc = "body"
  /\ ok => BodyRuns
  /\ bodiesRun' = IF BodyRuns THEN Append(bodiesRun, cur) ELSE bodiesRun
  /\ IF ok
     THEN /\ txBody' = cur
          /\ epc' = "record"
          /\ UNCHANGED <<opResult, errVersion>>
     ELSE /\ txBody' = NoVersion
          /\ epc' = "unlock"
          /\ opResult' = "MigrationError"
          /\ errVersion' = cur
  /\ UNCHANGED <<skipLock, initErr, lockErr, recordErr, locked, extHolds, applied,
                 schema, op, steps, queue, cur, acquired, lockCalls, unlockCalls,
                 startApplied, prevUpOk>>

\* Driver.Record (up) / Driver.Remove (down): they take no transaction handle and
\* write the bookkeeping table directly. A Record error rolls the body back.
EngRecord ==
  /\ UNCHANGED <<auxVars, lockVars, registry, appliedFrom>>
  /\ epc = "record"
  /\ IF op \in {"Up", "UpSteps"}
     THEN IF recordErr
          THEN /\ txBody' = NoVersion
               /\ epc' = "unlock"
               /\ opResult' = "MigrationError"
               /\ errVersion' = cur
               /\ UNCHANGED <<applied, recordLog>>
          ELSE /\ applied' = RecordStored(MigrationOf(cur))
               /\ recordLog' = Append(SelectSeq(recordLog, LAMBDA v : v # cur), cur)
               /\ epc' = "commit"
               /\ UNCHANGED <<txBody, opResult, errVersion>>
     ELSE /\ applied' = RemoveStored(cur)
          /\ recordLog' = SelectSeq(recordLog, LAMBDA v : v # cur)
          /\ epc' = "commit"
          /\ UNCHANGED <<txBody, opResult, errVersion>>
  /\ UNCHANGED <<skipLock, initErr, lockErr, recordErr, locked, extHolds, schema,
                 op, steps, queue, cur, acquired, lockCalls, unlockCalls, bodiesRun,
                 startApplied, prevUpOk>>

\* Driver.Exec: return tx.Commit(); the commit makes the body's effects durable,
\* or fails and leaves them undone.
EngCommit(ok) ==
  /\ UNCHANGED <<auxVars, lockVars, registry, recordLog, appliedFrom>>
  /\ epc = "commit"
  /\ txBody' = NoVersion
  /\ IF ok
     THEN /\ schema' = IF op \in {"Up", "UpSteps"} THEN schema \cup {txBody}
                       ELSE schema \ {txBody}
          /\ epc' = "next"
          /\ UNCHANGED <<opResult, errVersion>>
     ELSE /\ epc' = "unlock"
          /\ opResult' = "MigrationError"
          /\ errVersion' = cur
          /\ UNCHANGED schema
  /\ UNCHANGED <<skipLock, initErr, lockErr, recordErr, locked, extHolds, applied,
                 op, steps, queue, cur, acquired, lockCalls, unlockCalls, bodiesRun,
                 startApplied, prevUpOk>>

\* The scoped release: Driver.Unlock if the lock was taken, then the return.
EngUnlock ==
  /\ UNCHANGED <<auxVars, lockVars, registry, recordLog, appliedFrom>>
  /\ epc = "unlock"
  /\ epc' = "idle"
  /\ IF acquired
     THEN /\ locked' = UnlockReleases
          /\ unlockCalls' = unlockCalls + 1
     ELSE UNCHANGED <<locked, unlockCalls>>
  /\ queue' = <<>>
  /\ cur' = NoVersion
  /\ UNCHANGED <<skipLock, initErr, lockErr, recordErr, extHolds, applied, schema,
                 txBody, op, steps, acquired, opResult, errVersion, lockCalls,
                 bodiesRun, startApplied, prevUpOk>>

\* Another process sharing the driver takes and releases the lock.
ExtLock ==
  /\ UNCHANGED <<auxVars, lockVars, registry, recordLog, appliedFrom>>
  /\ ~locked
  /\ locked' = TRUE
  /\ extHolds' = TRUE
  /\ UNCHANGED <<skipLock, initErr, lockErr, recordErr, applied, schema, txBody,
                 epc, op, steps, queue, cur, acquired, opResult, errVersion,
                 lockCalls, unlockCalls, bodiesRun, startApplied, prevUpOk>>

ExtUnlock ==
  /\ UNCHANGED <<auxVars, lockVars, registry, recordLog, appliedFrom>>
  /\ extHolds
  /\ locked' = FALSE
  /\ extHolds' = FALSE
  /\ UNCHANGED <<skipLock, initErr, lockErr, recordErr, applied, schema, txBody,
                 epc, op, steps, queue, cur, acquired, opResult, errVersion,
                 lockCalls, unlockCalls, bodiesRun, startApplied, prevUpOk>>

\* time.Now() of the process running the driver
EngTick ==
  /\ now < MaxClock
  /\ now' = now + 1
  /\ UNCHANGED <<family, lockTable, pc, start, expiresAt, timeout, backoff,
                 wakeAt, cancelled, result, waitingOn, alone, timedOutBlocked,
                 staleUnlock, manualDeletes>>
  /\ UNCHANGED <<engVars, auxVars>>

\* The mock driver and the engine after New(): nothing applied, no operation run
EngFresh ==
  /\ skipLock = FALSE
  /\ initErr = FALSE
  /\ lockErr = FALSE
  /\ recordErr = FALSE
  /\ locked = FALSE
  /\ extHolds = FALSE
  /\ applied = {}
  /\ schema = {}
  /\ txBody = NoVersion
  /\ epc = "idle"
  /\ op = "none"
  /\ steps = 0
  /\ queue = <<>>
  /\ cur = NoVersion
  /\ acquired = FALSE
  /\ opResult = "none"
  /\ errVersion = NoVersion
  /\ lockCalls = 0
  /\ unlockCalls = 0
  /\ bodiesRun = <<>>
  /\ startApplied = {}
  /\ prevUpOk = FALSE
  /\ recordLog = <<>>
  /\ appliedFrom = {}
  /\ AuxIdle

EngIdle == EngFresh /\ registry = Registry

Init == LockInit /\ EngIdle

Next == LockNext

Spec == Init /\ [][Next]_vars

NextManual == LockNext \/ ManualDelete

SpecManual == Init /\ [][NextManual]_vars

\* The driver of cockroachdb.go: lock_key PRIMARY KEY, no owner_id column, the
\* acquire loop written out in Driver.Lock
InlineInit ==
  /\ family = "cockroachdb_inline"
  /\ now = 0
  /\ lockTable = {}
  /\ pc = [d \in Drivers |-> "idle"]
  /\ start = [d \in Drivers |-> 0]
  /\ expiresAt = [d \in Drivers |-> 0]
  /\ timeout = [d \in Drivers |-> 0]
  /\ backoff = [d \in Drivers |-> InitialBackoff]
  /\ wakeAt = [d \in Drivers |-> 0]
  /\ cancelled = [d \in Drivers |-> FALSE]
  /\ result = [d \in Drivers |-> "none"]
  /\ waitingOn = [d \in Drivers |-> NoDriver]
  /\ alone = [d \in Drivers |-> FALSE]
  /\ timedOutBlocked = [d \in Drivers |-> FALSE]
  /\ staleUnlock = FALSE
  /\ manualDeletes = 0
  /\ EngIdle

SpecInline == InlineInit /\ [][Next]_vars

NextUnlock == LockNext \/ \E d \in Drivers : UnlockNotHeld(d)

SpecUnlock == Init /\ [][NextUnlock]_vars

\* The engine over the mock driver; the lock table is not used.
EngineInit ==
  /\ LockInit
  /\ family = "cockroachdb"
  /\ skipLock \in BOOLEAN
  /\ initErr \in BOOLEAN
  /\ lockErr \in BOOLEAN
  /\ recordErr \in BOOLEAN
  /\ locked = FALSE
  /\ extHolds = FALSE
  /\ applied = {}
  /\ schema = {}
  /\ txBody = NoVersion
  /\ epc = "idle"
  /\ op = "none"
  /\ steps = 0
  /\ queue = <<>>
  /\ cur = NoVersion
  /\ acquired = FALSE
  /\ opResult = "none"
  /\ errVersion = NoVersion
  /\ lockCalls = 0
  /\ unlockCalls = 0
  /\ bodiesRun = <<>>
  /\ startApplied = {}
  /\ prevUpOk = FALSE
  /\ registry = Registry
  /\ recordLog = <<>>
  /\ appliedFrom = {}
  /\ AuxIdle

EngineNext ==
  \/ \E o \in Ops, n \in StepArgs : StartOp(o, n)
  \/ EngInit
  \/ EngLock
  \/ EngLoad
  \/ EngNext
  \/ \E ok \in BOOLEAN : EngBody(ok)
  \/ EngRecord
  \/ \E ok \in BOOLEAN : EngCommit(ok)
  \/ EngUnlock
  \/ ExtLock
  \/ ExtUnlock
  \/ EngTick

EngineSpec == EngineInit /\ [][EngineNext]_vars

\* ------------------------------------------------------------ redeploy
\* Registries of later releases: migration 2 without a down body, and
\* migration 2 no longer registered.
RegistryNoDown2 == << M(V10, <<"c">>, NoText, NoText, TRUE, TRUE, TagV1),
                      M(V2,  <<"b">>, NoText, NoText, TRUE, FALSE, TagV1),
                      M(V1,  <<"a">>, NoText, NoText, TRUE, TRUE, TagV1) >>

RegistryWithout2 == << M(V10, <<"c">>, NoText, NoText, TRUE, TRUE, TagV1),
                       M(V1,  <<"a">>, NoText, NoText, TRUE, TRUE, TagV1) >>

DeployVariants == {Registry, RegistryNoDown2, RegistryWithout2}

\* A new process with another registry: New(driver) and the Adds of its
\* release, against the same database.
Redeploy(r) ==
  /\ epc = "idle"
  /\ r # registry
  /\ registry' = r
  /\ op' = "none"
  /\ steps' = 0
  /\ opResult' = "none"
  /\ errVersion' = NoVersion
  /\ acquired' = FALSE
  /\ lockCalls' = 0
  /\ unlockCalls' = 0
  /\ bodiesRun' = <<>>
  /\ startApplied' = {}
  /\ prevUpOk' = FALSE
  /\ UNCHANGED <<auxVars, lockVars, skipLock, initErr, lockErr, recordErr, locked, extHolds,
                 applied, schema, txBody, epc, queue, cur, recordLog, appliedFrom>>

DeployInit ==
  /\ EngineInit
  /\ ~skipLock
  /\ ~initErr
  /\ ~lockErr
  /\ ~recordErr

DeployNext ==
  \/ EngineNext
  \/ \E r \in DeployVariants : Redeploy(r)

DeploySpec == DeployInit /\ [][DeployNext]_vars

\* ------------------------------------------------------------ registry
\* len(m.Name) > 63
MaxNameLen == 63

\* [a-z0-9_]
IdentChars == {"a", "b", "c", "d", "e", "f", "g", "h", "i", "j", "k", "l", "m",
               "n", "o", "p", "q", "r", "s", "t", "u", "v", "w", "x", "y", "z",
               "0", "1", "2", "3", "4", "5", "6", "7", "8", "9", "_"}

IsValidMigrationNameAny(t) == TRUE
\* IsValidMigrationName: regexp.MatchString(`^[a-z0-9_]+$`, name)
IsValidMigrationName(t) == t # <<>> /\ \A i \in DOMAIN t : t[i] \in IdentChars

\* strings.Contains(s, c) for a one-character c
Contains(t, c) == \E i \in DOMAIN t : t[i] = c

ValidateAcceptsAll(m) == "ok"
\* Migration.Validate
Validate(m) ==
  IF m.version = NoText \/ Contains(m.version, " ") \/ ~IsValidMigrationName(m.version)
  THEN "InvalidMigration"
  ELSE IF Len(m.name) > MaxNameLen THEN "NameTooLong"
  ELSE IF m.name = NoText \/ ~IsValidMigrationName(m.name) THEN "InvalidMigrationName"
  ELSE IF m.upSQL = NoText /\ ~m.upFunc THEN "InvalidMigration"
  ELSE "ok"

Repeat(c, n) == [i \in 1..n |-> c]

V007 == <<"0", "0", "7">>
VAnything == <<"a", "n", "y", "t", "h", "i", "n", "g">>
VDotted == <<"v", "1", ".", "0", ".", "0">>
TagV2 == <<"v", "2">>

\* Versions and names passed to Add: valid ones, and one for every way of
\* being invalid (empty, blank or tab inside, upper case, punctuation, too long)
CandidateVersions == {NoText, V007, VAnything, VDotted, <<"a", " ", "b">>,
                      <<"a", "\t">>, <<"A">>}

CandidateNames == {NoText, <<"f", "i", "r", "s", "t">>, <<"B", "a", "d">>,
                   <<"a", " ", "b">>, Repeat("a", MaxNameLen),
                   Repeat("a", MaxNameLen + 1), Repeat("A", MaxNameLen + 1)}

\* Migrations that differ in Version, Name and the presence of an up body
ShapeCandidates ==
  {M(v, n, up, NoText, f, FALSE, NoText) :
     v \in CandidateVersions, n \in CandidateNames,
     up \in {NoText, <<"x">>}, f \in BOOLEAN}

\* Releases of migration 007 that differ in content: SQL text (re-indented,
\* edited, moved between up and down), callbacks and ManualChecksum tag
ContentCandidates ==
  {M(V007, <<"f", "i", "r", "s", "t">>, up, down, FALSE, FALSE, tag) :
     up \in {<<"x">>, <<" ", "x", "\n">>, <<"x", "y">>},
     down \in {NoText, <<"y">>},
     tag \in {NoText, TagV1, TagV2}}
    \cup {M(V007, <<"f", "i", "r", "s", "t">>, NoText, NoText, TRUE, FALSE, tag) :
             tag \in {NoText, TagV1, TagV2}}

Candidates == ShapeCandidates \cup ContentCandidates

VersionRegisteredNever(reg, v) == FALSE
\* Registry: a migration with this Version has been added
VersionRegistered(reg, v) == \E i \in DOMAIN reg : reg[i].version = v

\* The errors Add(m) can return with Config.Naming == nil: the order of the
\* validity check and the duplicate check is not fixed by the model
AddErrors(reg, m) ==
  (IF Validate(m) # "ok" THEN {Validate(m)} ELSE {})
    \cup (IF VersionRegistered(reg, m.version) THEN {"VersionConflict"} ELSE {})

\* The registry after Add(m)
AddRegistry(reg, m) == IF AddErrors(reg, m) = {} THEN Append(reg, m) ELSE reg

\* Queen.Add / MustAdd at start-up, into a registry of fewer than limit
\* migrations; the cached sorted view is invalidated
AddWithin(m, limit) ==
  /\ Len(registry) < limit
  /\ registry' = AddRegistry(registry, m)
  /\ registry' # registry
  /\ sortedView' = NotCached
  /\ UNCHANGED <<auxRest, lockVars, skipLock, initErr, lockErr, recordErr, locked, extHolds,
                 applied, schema, txBody, epc, op, steps, queue, cur, acquired,
                 opResult, errVersion, lockCalls, unlockCalls, bodiesRun,
                 startApplied, prevUpOk, recordLog, appliedFrom>>

Add(m) == AddWithin(m, MaxRegistry)

\* An Up of this release applies the registered migration i: Driver.Record
ApplyRegistered(i) ==
  /\ i \in DOMAIN registry
  /\ registry[i].version \notin AppliedVersions(applied)
  /\ applied' = RecordStored(registry[i])
  /\ appliedFrom' = appliedFrom \cup {registry[i]}
  /\ UNCHANGED <<auxVars, lockVars, skipLock, initErr, lockErr, recordErr, locked, extHolds,
                 schema, txBody, epc, op, steps, queue, cur, acquired,
                 opResult, errVersion, lockCalls, unlockCalls, bodiesRun,
                 startApplied, prevUpOk, registry, recordLog>>

\* The next release starts with an empty registry against the same database
NewProcess ==
  /\ registry # <<>>
  /\ registry' = <<>>
  /\ UNCHANGED <<auxVars, lockVars, skipLock, initErr, lockErr, recordErr, locked, extHolds,
                 applied, schema, txBody, epc, op, steps, queue, cur, acquired,
                 opResult, errVersion, lockCalls, unlockCalls, bodiesRun,
                 startApplied, prevUpOk, recordLog, appliedFrom>>

\* The applied record of version v
RecordOf(v) == CHOOSE r \in applied : r.version = v

StatusOfNeverModified(m) ==
  IF m.version \notin AppliedVersions(applied) THEN "pending" ELSE "applied"
\* Status of a registered migration
StatusOf(m) ==
  IF m.version \notin AppliedVersions(applied) THEN "pending"
  ELSE IF RecordOf(m.version).checksum = Checksum(m) THEN "applied"
  ELSE "modified"

\* Queen.Status: one entry per registered migration, and one per applied record
\* without a registered migration
Status ==
  {[version |-> m.version, status |-> StatusOf(m)] : m \in Registered}
    \cup {[version |-> r.version, status |-> "modified"] :
            r \in {x \in applied : x.version \notin RegVersions}}

\* Queen.Validate: the failures it can report first, or ok
QueenValidate ==
  LET failures ==
        {[kind |-> "ChecksumMismatch", version |-> m.version] :
           m \in {x \in Registered : StatusOf(x) = "modified"}}
          \cup {[kind |-> "MigrationNotFound", version |-> r.version] :
                  r \in {x \in applied : x.version \notin RegVersions}}
  IN IF failures = {} THEN {[kind |-> "ok", version |-> NoVersion]} ELSE failures

RegistryInit ==
  /\ LockInit
  /\ family = "cockroachdb"
  /\ EngFresh
  /\ registry = <<>>

RegistryNext ==
  \/ \E m \in Candidates : Add(m)
  \/ \E i \in 1..MaxRegistry : ApplyRegistered(i)
  \/ NewProcess

RegistrySpec == RegistryInit /\ [][RegistryNext]_vars

\* ------------------------------------------------------ sorted view
V100 == <<"1", "0", "0">>
V01 == <<"0", "1">>
User1 == <<"u", "s", "e", "r", "_", "1">>
User2 == <<"u", "s", "e", "r", "_", "2">>
User10 == <<"u", "s", "e", "r", "_", "1", "0">>

OrderVersions == {V1, V2, V10, V100, V01, User1, User10}

\* One SQL migration per Version
OrderCandidates ==
  {M(v, <<"f", "i", "r", "s", "t">>, <<"x">>, NoText, FALSE, FALSE, NoText) :
     v \in OrderVersions}

\* Registry.Sorted(): computed when not cached
CallSorted ==
  /\ sortedView = NotCached
  /\ sortedView' = SortVersions(VersionsOf(registry))
  /\ UNCHANGED <<auxRest, lockVars, engVars>>

OrderNext ==
  \/ \E m \in OrderCandidates : AddWithin(m, MaxOrder)
  \/ CallSorted

OrderSpec == RegistryInit /\ [][OrderNext]_vars

\* --------------------------------------------------------- Driver.Exec
Rows == {"r1", "r2"}
CallbackErrors == {"ErrBody", "ErrRecord"}

\* The state Exec does not touch
outsideExec == <<lockVars, engVars, sortVars, sessVars, sumVars, cfgVars, lateVars>>

\* tx, err := d.DB.BeginTx(ctx, nil); if err != nil { return err }
ExecBegin(ok) ==
  /\ xpc \in {"idle", "done"}
  /\ xpc' = IF ok THEN "fn" ELSE "done"
  /\ execResult' = IF ok THEN "none" ELSE "ErrBegin"
  /\ txWrites' = {}
  /\ fnErr' = "none"
  /\ rollbackErr' = "none"
  /\ commitCalls' = 0
  /\ rollbackCalls' = 0
  /\ rowsAtBegin' = dbRows
  /\ UNCHANGED <<dbRows, outsideExec>>

\* err := fn(tx): the callback writes rows through tx and returns nil or an error
ExecCallback(w, err) ==
  /\ xpc = "fn"
  /\ txWrites' = w
  /\ fnErr' = err
  /\ xpc' = IF err = "nil" THEN "commit" ELSE "rollback"
  /\ UNCHANGED <<dbRows, rollbackErr, execResult, commitCalls, rollbackCalls,
                 rowsAtBegin, outsideExec>>

ErrorReturnedFromRollback(callbackErr, rbErr) == IF rbErr # "nil" THEN rbErr ELSE callbackErr
\* _ = tx.Rollback(); return err
ErrorReturned(callbackErr, rbErr) == callbackErr

\* The callback failed: tx.Rollback(), which may itself fail (the connection is
\* lost; the server then discards the transaction), and the return
ExecRollback(rbErr) ==
  /\ xpc = "rollback"
  /\ rollbackCalls' = rollbackCalls + 1
  /\ rollbackErr' = rbErr
  /\ txWrites' = {}
  /\ execResult' = ErrorReturned(fnErr, rbErr)
  /\ xpc' = "done"
  /\ UNCHANGED <<dbRows, fnErr, commitCalls, rowsAtBegin, outsideExec>>

\* return tx.Commit()
ExecCommit(ok) ==
  /\ xpc = "commit"
  /\ commitCalls' = commitCalls + 1
  /\ dbRows' = IF ok THEN dbRows \cup txWrites ELSE dbRows
  /\ txWrites' = {}
  /\ execResult' = IF ok THEN "nil" ELSE "ErrCommit"
  /\ xpc' = "done"
  /\ UNCHANGED <<fnErr, rollbackErr, rollbackCalls, rowsAtBegin, outsideExec>>

ExecNext ==
  \/ \E ok \in BOOLEAN : ExecBegin(ok)
  \/ \E w \in SUBSET Rows, err \in CallbackErrors \cup {"nil"} : ExecCallback(w, err)
  \/ \E rbErr \in {"nil", "ErrRollback"} : ExecRollback(rbErr)
  \/ \E ok \in BOOLEAN : ExecCommit(ok)

ExecSpec == Init /\ [][ExecNext]_vars

\* -------------------------------------------------- session-bound locks
\* PostgreSQL: pg_try_advisory_lock / pg_advisory_unlock through d.DB, the pool.
\* MySQL: GET_LOCK / RELEASE_LOCK on a dedicated *sql.Conn kept in d.conn.
SessionKinds == {"postgres", "mysql"}
\* The connections of the database/sql pool of the process
Conns == {"c1", "c2"}
TicksPerSecond == 2
SessTimeouts == {1, 2}

\* The state the session-bound lock does not touch
outsideSess == <<lockVars, engVars, sortVars, execVars, sumVars, cfgVars, lateVars>>

\* New(db) of the postgres or of the mysql package
SessNew(k) ==
  /\ spc = "closed"
  /\ spc' = "idle"
  /\ sKind' = k
  /\ UNCHANGED <<sClock, sHeldBy, sConn, callConn, sStart, sTimeout, sResult,
                 acquiredOn, releasedOn, otherFreedAt, outsideSess>>

\* int(timeout.Seconds()): the wait GET_LOCK is given, in ticks
GetLockWait(t) == (t \div TicksPerSecond) * TicksPerSecond

\* Lock. PostgreSQL: SET lock_timeout and SELECT pg_try_advisory_lock($1) through
\* the pool, on whichever connection c it hands out; the try never waits.
\* MySQL: conn, err := d.DB.Conn(ctx), then SELECT GET_LOCK(?, ?) on it.
SessLock(t, c) ==
  /\ spc = "idle"
  /\ sStart' = sClock
  /\ sTimeout' = t
  /\ IF sKind = "postgres"
     THEN /\ IF sHeldBy \in {NoConn, c}
             THEN /\ sHeldBy' = c
                  /\ acquiredOn' = c
                  /\ spc' = "holding"
                  /\ sResult' = "ok"
             ELSE /\ sResult' = "timeout"
                  /\ UNCHANGED <<sHeldBy, acquiredOn, spc>>
          /\ UNCHANGED callConn
     ELSE /\ callConn' = c
          /\ spc' = "wait"
          /\ sResult' = "none"
          /\ UNCHANGED <<sHeldBy, acquiredOn>>
  /\ UNCHANGED <<sKind, sClock, sConn, releasedOn, otherFreedAt, outsideSess>>

\* GET_LOCK returns 1 when the lock is free within its wait, else 0 after it:
\* d.conn = conn, or conn.Close() and ErrLockTimeout
SessGetLock ==
  /\ spc = "wait"
  /\ IF sHeldBy = NoConn
     THEN /\ sHeldBy' = callConn
          /\ acquiredOn' = callConn
          /\ sConn' = callConn
          /\ spc' = "holding"
          /\ sResult' = "ok"
     ELSE /\ sClock >= sStart + GetLockWait(sTimeout)
          /\ spc' = "idle"
          /\ sResult' = "timeout"
          /\ UNCHANGED <<sHeldBy, acquiredOn, sConn>>
  /\ callConn' = NoConn
  /\ UNCHANGED <<sKind, sClock, sStart, sTimeout, releasedOn, otherFreedAt,
                 outsideSess>>

\* The connection Unlock may run on. PostgreSQL: d.DB.ExecContext, any connection
\* of the pool. MySQL: d.conn.
UnlockConn(c) == IF sKind = "postgres" THEN c \in Conns ELSE c = sConn

\* Unlock after a successful Lock: SELECT pg_advisory_unlock($1), which releases
\* nothing (and is no error) on a session that does not hold the lock;
\* SELECT RELEASE_LOCK(?) on d.conn, then d.conn.Close() and d.conn = nil
SessUnlock(c) ==
  /\ spc = "holding"
  /\ UnlockConn(c)
  /\ sHeldBy' = IF sHeldBy = c THEN NoConn ELSE sHeldBy
  /\ releasedOn' = c
  /\ sConn' = NoConn
  /\ spc' = "idle"
  /\ sResult' = "unlocked"
  /\ UNCHANGED <<sKind, sClock, callConn, sStart, sTimeout, acquiredOn,
                 otherFreedAt, outsideSess>>

\* Another process takes the lock in its own session; a session waiting in
\* GET_LOCK is served first
OtherLock ==
  /\ sHeldBy = NoConn
  /\ spc # "wait"
  /\ sHeldBy' = OtherProcess
  /\ UNCHANGED <<sKind, sClock, sConn, callConn, spc, sStart, sTimeout, sResult,
                 acquiredOn, releasedOn, otherFreedAt, outsideSess>>

OtherUnlock ==
  /\ sHeldBy = OtherProcess
  /\ sHeldBy' = NoConn
  /\ otherFreedAt' = sClock
  /\ UNCHANGED <<sKind, sClock, sConn, callConn, spc, sStart, sTimeout, sResult,
                 acquiredOn, releasedOn, outsideSess>>

SessTick ==
  /\ sClock < MaxSessClock
  /\ sClock' = sClock + 1
  /\ UNCHANGED <<sKind, sHeldBy, sConn, callConn, spc, sStart, sTimeout, sResult,
                 acquiredOn, releasedOn, otherFreedAt, outsideSess>>

SessionNext ==
  \/ \E k \in SessionKinds : SessNew(k)
  \/ \E t \in SessTimeouts, c \in Conns : SessLock(t, c)
  \/ SessGetLock
  \/ \E c \in Conns : SessUnlock(c)
  \/ OtherLock
  \/ OtherUnlock
  \/ SessTick

SessionSpec == Init /\ [][SessionNext]_vars

\* ------------------------------------------------ reformatting of SQL
\* The state a SQL body and its reformatting do not touch
outsideSum == <<lockVars, engVars, sortVars, execVars, sessVars, cfgVars, lateVars>>

\* The SQL bodies first written: two tokens on one line or on two, one token
SqlBodies == {<<"a", " ", "b">>, <<"a", "\n", "b">>, <<"a">>}

\* t with the whitespace character w put in before position i
InsertAt(t, i, w) == SubSeq(t, 1, i - 1) \o <<w>> \o SubSeq(t, i, Len(t))

\* t without its character at position i
RemoveAt(t, i) == SubSeq(t, 1, i - 1) \o SubSeq(t, i + 1, Len(t))

\* Position i of t lies on whitespace or at an end of t: more whitespace there
\* separates no token
AtWhitespace(t, i) ==
  IF i = 1 \/ i = Len(t) + 1 THEN TRUE
  ELSE t[i] \in Spaces \/ t[i - 1] \in Spaces

\* The whitespace character at i can go without joining two tokens
Removable(t, i) ==
  /\ t[i] \in Spaces
  /\ IF i = 1 \/ i = Len(t) THEN TRUE
     ELSE t[i - 1] \in Spaces \/ t[i + 1] \in Spaces

\* A SQL body is written
WriteSql(b) ==
  /\ sqlBody = <<>>
  /\ sqlBody' = b
  /\ sqlReformatted' = b
  /\ UNCHANGED outsideSum

\* One edit that changes only whitespace: more of it where there is some or at
\* an end, less of it where tokens stay apart, one kind for another
Reformat ==
  /\ sqlBody # <<>>
  /\ \/ \E i \in 1..(Len(sqlReformatted) + 1), w \in Spaces :
          /\ Len(sqlReformatted) < MaxSqlLen
          /\ AtWhitespace(sqlReformatted, i)
          /\ sqlReformatted' = InsertAt(sqlReformatted, i, w)
     \/ \E i \in 1..Len(sqlReformatted) :
          /\ Removable(sqlReformatted, i)
          /\ sqlReformatted' = RemoveAt(sqlReformatted, i)
     \/ \E i \in 1..Len(sqlReformatted), w \in Spaces :
          /\ sqlReformatted[i] \in Spaces
          /\ sqlReformatted' = [sqlReformatted EXCEPT ![i] = w]
  /\ UNCHANGED <<sqlBody, outsideSum>>

ReformatNext ==
  \/ \E b \in SqlBodies : WriteSql(b)
  \/ Reformat

ReformatSpec == Init /\ [][ReformatNext]_vars

\* -------------------------------------------------- CLI configuration
\* The state the CLI configuration does not touch
outsideCfg == <<lockVars, engVars, sortVars, execVars, sessVars, sumVars, lateVars>>

Settings == {"driver", "dsn", "table"}
NotGiven == "flag not given"
\* the default of the --table flag
DefaultTableName == "queen_migrations"

\* What the command line can say for each setting
FlagChoices ==
  [driver : {NotGiven, "postgres"},
   dsn : {NotGiven, "postgres://flag/db"},
   table : {NotGiven, "flag_table", DefaultTableName}]

\* What the environment variables can hold; "" is unset
EnvChoices ==
  [driver : {"", "mysql"}, dsn : {"", "mysql://env/db"}, table : {"", "env_table"}]

\* What the selected environment of .queen.yaml can hold; "" is absent
FileChoices ==
  [driver : {"", "sqlite"}, dsn : {"", "file:config.db"}, table : {"", "file_table"}]

\* The value a flag variable holds when its flag is not given
FlagDefault(k) == IF k = "table" THEN DefaultTableName ELSE ""

\* flags.StringVar(&app.config.Driver, "driver", "", ...) and the parse
ParseFlags(f, e, c, u) ==
  /\ cpc = "start"
  /\ flags' = f
  /\ environ' = e
  /\ configFile' = c
  /\ useConfig' = u
  /\ appConfig' = [k \in Settings |-> IF f[k] = NotGiven THEN FlagDefault(k) ELSE f[k]]
  /\ cpc' = "flags"
  /\ UNCHANGED outsideCfg

\* loadConfigFile: which fields the environment of the file fills
FileFills(k, held, v) ==
  IF k = "table" THEN held = DefaultTableName /\ v # "" ELSE held = ""

\* loadConfig: if app.config.UseConfig { app.loadConfigFile() }
LoadConfigFile ==
  /\ cpc = "flags"
  /\ appConfig' = [k \in Settings |->
        IF useConfig /\ FileFills(k, appConfig[k], configFile[k])
        THEN configFile[k] ELSE appConfig[k]]
  /\ cpc' = "file"
  /\ UNCHANGED <<flags, environ, configFile, useConfig, outsideCfg>>

\* loadEnv: which fields the environment variables fill
EnvFills(k, held, v) ==
  (IF k = "table" THEN held = DefaultTableName ELSE held = "") /\ v # ""

\* loadConfig: app.loadEnv()
LoadEnv ==
  /\ cpc = "file"
  /\ appConfig' = [k \in Settings |->
        IF EnvFills(k, appConfig[k], environ[k]) THEN environ[k] ELSE appConfig[k]]
  /\ cpc' = "loaded"
  /\ UNCHANGED <<flags, environ, configFile, useConfig, outsideCfg>>

\* The next command
NextCommand ==
  /\ cpc = "loaded"
  /\ cpc' = "start"
  /\ flags' = [k \in Settings |-> ""]
  /\ environ' = [k \in Settings |-> ""]
  /\ configFile' = [k \in Settings |-> ""]
  /\ useConfig' = FALSE
  /\ appConfig' = [k \in Settings |-> ""]
  /\ UNCHANGED outsideCfg

ConfigNext ==
  \/ \E f \in FlagChoices, e \in EnvChoices, c \in FileChoices, u \in BOOLEAN :
       ParseFlags(f, e, c, u)
  \/ LoadConfigFile
  \/ LoadEnv
  \/ NextCommand

ConfigSpec == Init /\ [][ConfigNext]_vars

\* ------------------------------------------------ CLI up / down commands
\* One process runs one command: RunWithDB builds the App with an empty
\* Config, cobra parses the flags and calls the command's RunE.
earlyVars == <<lockVars, engVars, sortVars, execVars, sessVars, sumVars, cfgVars>>

outsideCmd == <<earlyVars, memoVars, runVars, pinVars, namingVars>>

Commands == {"up", "down"}
EnvFlags == {"", "staging", "production", "qa"}
Answers == {"yes", "y", "no", "production"}

\* cobra has parsed the command line of "queen up" / "queen down"
RunE(c, y, u, e, f) ==
  /\ kpc = "start"
  /\ kpc' = "check"
  /\ command' = c
  /\ yes' = y
  /\ kUseConfig' = u
  /\ kEnv' = e
  /\ fileEnvs' = f
  /\ UNCHANGED <<fileLoaded, prompted, answer, dbOpened, migrated, cmdErr, outsideCmd>>

\* App.requiresConfirmation
requiresConfirmation ==
  IF yes THEN FALSE
  ELSE IF ~fileLoaded \/ kEnv = "" THEN FALSE
  ELSE IF kEnv \notin DOMAIN fileEnvs THEN FALSE
  ELSE fileEnvs[kEnv]

\* confirm / confirmExact: the answers that let the command go on
Affirmative(a) ==
  IF kEnv = "production" THEN a = "production" ELSE a \in {"yes", "y"}

\* app.checkConfirmation(operation), the first statement of RunE that acts
checkConfirmation(a) ==
  /\ kpc = "check"
  /\ IF ~requiresConfirmation
       THEN /\ kpc' = "setup"
            /\ UNCHANGED <<prompted, answer, cmdErr>>
       ELSE /\ prompted' = TRUE
            /\ answer' = a
            /\ IF Affirmative(a)
                 THEN kpc' = "setup" /\ UNCHANGED cmdErr
                 ELSE kpc' = "done" /\ cmdErr' = "operation cancelled"
  /\ UNCHANGED <<command, yes, kUseConfig, kEnv, fileEnvs, fileLoaded, dbOpened,
                 migrated, outsideCmd>>

\* app.setupQueen: loadConfig (which reads .queen.yaml under --use-config),
\* then sql.Open and PingContext
setupQueen ==
  /\ kpc = "setup"
  /\ fileLoaded' = (fileLoaded \/ kUseConfig)
  /\ IF kUseConfig /\ kEnv # "" /\ kEnv \notin DOMAIN fileEnvs
       THEN /\ kpc' = "done"
            /\ cmdErr' = "environment not found in config file"
            /\ UNCHANGED dbOpened
       ELSE /\ kpc' = "run"
            /\ dbOpened' = TRUE
            /\ UNCHANGED cmdErr
  /\ UNCHANGED <<command, yes, kUseConfig, kEnv, fileEnvs, prompted, answer,
                 migrated, outsideCmd>>

\* q.Up / q.UpSteps / q.Down
RunMigrations ==
  /\ kpc = "run"
  /\ kpc' = "done"
  /\ migrated' = TRUE
  /\ UNCHANGED <<command, yes, kUseConfig, kEnv, fileEnvs, fileLoaded, prompted,
                 answer, dbOpened, cmdErr, outsideCmd>>

\* The process ends and the command is run again in a new process
NextProcess ==
  /\ kpc = "done"
  /\ kpc' = "start"
  /\ command' = "up"
  /\ yes' = FALSE
  /\ kUseConfig' = FALSE
  /\ kEnv' = ""
  /\ fileEnvs' = [e \in FileEnvNames |-> FALSE]
  /\ fileLoaded' = FALSE
  /\ prompted' = FALSE
  /\ answer' = ""
  /\ dbOpened' = FALSE
  /\ migrated' = FALSE
  /\ cmdErr' = ""
  /\ UNCHANGED outsideCmd

CmdNext ==
  \/ \E c \in Commands, y \in BOOLEAN, u \in BOOLEAN, e \in EnvFlags,
        f \in [FileEnvNames -> BOOLEAN] : RunE(c, y, u, e, f)
  \/ \E a \in Answers : checkConfirmation(a)
  \/ setupQueen
  \/ RunMigrations
  \/ NextProcess

CmdSpec == Init /\ [][CmdNext]_vars

\* ------------------------------------------------- Driver.Record, direct
\* Record and Remove called on the driver by any client: an engine run, a
\* second process that did not see the first one's record, a test.
engNotApplied == <<skipLock, initErr, lockErr, recordErr, locked, extHolds,
                   schema, txBody, epc, op, steps, queue, cur, acquired, opResult,
                   errVersion, lockCalls, unlockCalls, bodiesRun, startApplied,
                   prevUpOk, registry, recordLog, appliedFrom>>

DriverRecord(m) ==
  /\ ~recordErr
  /\ applied' = RecordStored(m)
  /\ UNCHANGED <<engNotApplied, lockVars, auxVars>>

DriverRemove(v) ==
  /\ \E r \in applied : r.version = v
  /\ applied' = RemoveStored(v)
  /\ UNCHANGED <<engNotApplied, lockVars, auxVars>>

DriverNext ==
  \/ \E m \in Registered : DriverRecord(m)
  \/ \E v \in RegVersions : DriverRemove(v)
  \/ Tick

DriverSpec == Init /\ [][DriverNext]_vars

\* ---------------------------------------------------- Migration.Checksum
outsideMemo == <<earlyVars, cmdVars, runVars, pinVars, namingVars>>

SqlTexts == {NoText, <<"x">>, <<"x", "y">>}
Tags == {NoText, TagV1, TagV2}

\* A Migration literal: M{Version: ..., UpSQL: ..., DownSQL: ..., ManualChecksum: ...}
NewMigration(up, down, fn, tag) ==
  /\ inst = <<>>
  /\ up # NoText \/ fn
  /\ inst' = M(V1, <<"a">>, up, down, fn, FALSE, tag)
  /\ UNCHANGED <<checksumOnce, mChecksum, returned, staleCall, outsideMemo>>

\* An assignment to UpSQL, DownSQL or ManualChecksum of the instance
SetField(f, t) ==
  /\ inst # <<>>
  /\ inst[f] # t
  /\ inst' = [inst EXCEPT ![f] = t]
  /\ UNCHANGED <<checksumOnce, mChecksum, returned, staleCall, outsideMemo>>

ChecksumRecomputed == Checksum(inst)
\* The value in m.checksum after m.checksumOnce.Do(...)
ChecksumMemoized == IF checksumOnce = "done" THEN mChecksum ELSE Checksum(inst)

\* m.Checksum()
CallChecksum ==
  /\ inst # <<>>
  /\ Len(returned) < MaxCalls
  /\ checksumOnce' = "done"
  /\ mChecksum' = ChecksumMemoized
  /\ returned' = Append(returned, ChecksumMemoized)
  /\ staleCall' = (staleCall \/ (checksumOnce = "done" /\ Checksum(inst) # mChecksum))
  /\ UNCHANGED <<inst, outsideMemo>>

\* The instance goes out of use and another one is built
DropMigration ==
  /\ returned # <<>>
  /\ inst' = <<>>
  /\ checksumOnce' = "nil"
  /\ mChecksum' = <<>>
  /\ returned' = <<>>
  /\ staleCall' = FALSE
  /\ UNCHANGED outsideMemo

MemoNext ==
  \/ \E up \in SqlTexts, down \in SqlTexts, fn \in BOOLEAN, tag \in Tags :
        NewMigration(up, down, fn, tag)
  \/ \E f \in {"upSQL", "downSQL", "manualChecksum"}, t \in SqlTexts \cup Tags :
        SetField(f, t)
  \/ CallChecksum
  \/ DropMigration

MemoSpec == Init /\ [][MemoNext]_vars

\* ------------------------------------------- executeUp / executeDown
outsideRun == <<earlyVars, cmdVars, checksumOnce, mChecksum, returned, staleCall, pinVars, namingVars>>

\* A Migration with any of UpSQL, DownSQL, UpFunc, DownFunc set
BuildMigration(up, down, upFn, downFn) ==
  /\ inst = <<>>
  /\ inst' = M(V1, <<"a">>, up, down, upFn, downFn, NoText)
  /\ UNCHANGED <<runVars, outsideRun>>

UpFormsBoth(m) ==
  (IF m.upFunc THEN {"UpFunc"} ELSE {}) \cup (IF m.upSQL # NoText THEN {"UpSQL"} ELSE {})
\* executeUp: what it executes
UpForms(m) ==
  IF m.upFunc THEN {"UpFunc"}
  ELSE IF m.upSQL # NoText THEN {"UpSQL"}
  ELSE {}

DownFormsBoth(m) ==
  (IF m.downFunc THEN {"DownFunc"} ELSE {})
    \cup (IF m.downSQL # NoText THEN {"DownSQL"} ELSE {})
\* executeDown: what it executes
DownForms(m) ==
  IF m.downFunc THEN {"DownFunc"}
  ELSE IF m.downSQL # NoText THEN {"DownSQL"}
  ELSE {}

\* What the call returns: the error of the callback or of tx.ExecContext, or
\* ErrInvalidMigration when there is nothing to run
BodyResult(forms, ok) ==
  IF forms = {} THEN "InvalidMigration" ELSE IF ok THEN "none" ELSE "body error"

\* m.executeUp(ctx, tx)
executeUp(ok) ==
  /\ inst # <<>>
  /\ lastDir' = "up"
  /\ lastRan' = UpForms(inst)
  /\ lastErr' = BodyResult(UpForms(inst), ok)
  /\ UNCHANGED <<inst, outsideRun>>

\* m.executeDown(ctx, tx)
executeDown(ok) ==
  /\ inst # <<>>
  /\ lastDir' = "down"
  /\ lastRan' = DownForms(inst)
  /\ lastErr' = BodyResult(DownForms(inst), ok)
  /\ UNCHANGED <<inst, outsideRun>>

\* Another migration is taken up
NextMigration ==
  /\ lastDir # "none"
  /\ inst' = <<>>
  /\ lastDir' = "none"
  /\ lastRan' = {}
  /\ lastErr' = "none"
  /\ UNCHANGED outsideRun

RunNext ==
  \/ \E up \in SqlTexts, down \in SqlTexts, upFn \in BOOLEAN, downFn \in BOOLEAN :
        BuildMigration(up, down, upFn, downFn)
  \/ \E ok \in BOOLEAN : executeUp(ok)
  \/ \E ok \in BOOLEAN : executeDown(ok)
  \/ NextMigration

RunSpec == Init /\ [][RunNext]_vars

\* ------------------------------------- MySQL / SQL Server: d.conn
\* Lock takes a dedicated *sql.Conn from the pool and keeps it in d.conn; Unlock
\* releases the lock on it, closes it and clears d.conn.
outsidePin == <<earlyVars, cmdVars, memoVars, runVars, namingVars>>

PinKinds == {"mysql", "mssql"}
LockOutcomes == {"conn error", "query error", "answer"}

\* New(db) of the mysql or of the mssql package
PinNew(k) ==
  /\ pinKind = "none"
  /\ pinKind' = k
  /\ UNCHANGED <<dConn, inUse, lockSession, pinCall, pinResult, outsidePin>>

\* Driver.Lock: conn, err := d.DB.Conn(ctx); the GET_LOCK / sp_getapplock query
\* on conn; on an error or a lock not granted conn.Close(); else d.conn = conn
PinLock(c, out) ==
  /\ pinKind # "none"
  /\ c \notin inUse
  /\ pinCall' = "Lock"
  /\ IF out = "answer" /\ lockSession = NoConn
     THEN /\ lockSession' = c
          /\ dConn' = c
          /\ inUse' = inUse \cup {c}
          /\ pinResult' = "ok"
     ELSE /\ pinResult' = IF out = "answer" THEN "timeout" ELSE "error"
          /\ UNCHANGED <<lockSession, dConn, inUse>>
  /\ UNCHANGED <<pinKind, outsidePin>>

\* Driver.Unlock: nil when d.conn == nil; the RELEASE_LOCK / sp_releaseapplock
\* query on d.conn; on its error return it; else d.conn.Close() and d.conn = nil.
\* A query that ends in an error may or may not have released the lock.
PinUnlock(ok, freed) ==
  /\ pinKind # "none"
  /\ pinCall' = "Unlock"
  /\ IF dConn = NoConn
     THEN /\ pinResult' = "unlocked"
          /\ UNCHANGED <<dConn, inUse, lockSession>>
     ELSE IF ~ok
     THEN /\ pinResult' = "error"
          /\ lockSession' = IF freed /\ lockSession = dConn THEN NoConn ELSE lockSession
          /\ UNCHANGED <<dConn, inUse>>
     ELSE /\ pinResult' = "unlocked"
          /\ lockSession' = IF lockSession = dConn THEN NoConn ELSE lockSession
          /\ inUse' = inUse \ {dConn}
          /\ dConn' = NoConn
  /\ UNCHANGED <<pinKind, outsidePin>>

\* Another process takes or releases the lock in its own session
PinOtherLock ==
  /\ lockSession = NoConn
  /\ lockSession' = OtherProcess
  /\ UNCHANGED <<pinKind, dConn, inUse, pinCall, pinResult, outsidePin>>

PinOtherUnlock ==
  /\ lockSession = OtherProcess
  /\ lockSession' = NoConn
  /\ UNCHANGED <<pinKind, dConn, inUse, pinCall, pinResult, outsidePin>>

PinNext ==
  \/ \E k \in PinKinds : PinNew(k)
  \/ \E c \in Conns, out \in LockOutcomes : PinLock(c, out)
  \/ \E ok \in BOOLEAN, freed \in BOOLEAN : PinUnlock(ok, freed)
  \/ PinOtherLock
  \/ PinOtherUnlock

PinSpec == Init /\ [][PinNext]_vars

\* -------------------------------------------------- NamingConfig
outsideNaming == <<earlyVars, cmdVars, memoVars, runVars, pinVars>>

Patterns == {"sequential", "sequential-padded"}
Paddings == {0, 1, 2, 3}
ExistingPool == {<<"1">>, <<"2">>, <<"9">>, <<"0">>, <<"1", "0">>, <<"0", "1">>,
                 <<"0", "9">>, <<"9", "9">>, <<"0", "0", "7">>, <<"a", "b", "c">>,
                 <<"+", "5">>, <<"-", "3">>}

AllDigits(v) == \A i \in DOMAIN v : IsDigit(v[i])

\* strconv.Atoi succeeds: an optional sign and then decimal digits
AtoiOk(v) ==
  IF v = <<>> THEN FALSE
  ELSE IF Head(v) \in {"+", "-"} THEN Tail(v) # <<>> /\ AllDigits(Tail(v))
  ELSE AllDigits(v)

\* The int strconv.Atoi returns for such a string
Atoi(v) ==
  IF Head(v) = "-" THEN 0 - NumValue(Tail(v))
  ELSE IF Head(v) = "+" THEN NumValue(Tail(v))
  ELSE NumValue(v)

DigitChar(n) ==
  CASE n = 0 -> "0" [] n = 1 -> "1" [] n = 2 -> "2" [] n = 3 -> "3" [] n = 4 -> "4"
    [] n = 5 -> "5" [] n = 6 -> "6" [] n = 7 -> "7" [] n = 8 -> "8" [] n = 9 -> "9"

\* strconv.Itoa of a number that is not negative
RECURSIVE Itoa(_)
Itoa(n) == IF n < 10 THEN <<DigitChar(n)>> ELSE Itoa(n \div 10) \o <<DigitChar(n % 10)>>

\* fmt.Sprintf("%0*d", padding, n): at least padding digits, zeros in front
SprintfPadded(padding, n) ==
  LET d == Itoa(n) IN
    IF Len(d) >= padding THEN d ELSE Repeat("0", padding - Len(d)) \o d

\* The loop of findNextSequential over versions[i..]: the largest number seen
RECURSIVE MaxVersionFrom(_, _, _)
MaxVersionFrom(versions, i, maxVersion) ==
  IF i > Len(versions) THEN maxVersion
  ELSE IF ~AtoiOk(versions[i]) THEN MaxVersionFrom(versions, i + 1, maxVersion)
  ELSE IF Atoi(versions[i]) > maxVersion
       THEN MaxVersionFrom(versions, i + 1, Atoi(versions[i]))
       ELSE MaxVersionFrom(versions, i + 1, maxVersion)

findNextSequential(versions, padded, padding) ==
  LET nextNumber == MaxVersionFrom(versions, 1, 0) + 1 IN
    IF padded THEN SprintfPadded(padding, nextNumber) ELSE Itoa(nextNumber)

\* padding := nc.Padding; if padding <= 0 { padding = 3 }
EffectivePadding(padding) == IF padding <= 0 THEN 3 ELSE padding

\* NamingConfig.FindNextVersion for the two sequential patterns
FindNextVersionOf(pattern, padding, versions) ==
  IF pattern = "sequential" THEN findNextSequential(versions, FALSE, 0)
  ELSE findNextSequential(versions, TRUE, EffectivePadding(padding))

\* validateSequential: ^\d+$ and no leading zero
validateSequential(v) ==
  v # <<>> /\ AllDigits(v) /\ ~(Len(v) > 1 /\ v[1] = "0")

\* validateSequentialPadded: ^\d{padding}$
validateSequentialPadded(v, padding) ==
  Len(v) = EffectivePadding(padding) /\ AllDigits(v)

\* NamingConfig.Validate returns nil
NamingValidate(pattern, padding, v) ==
  IF pattern = "sequential" THEN validateSequential(v)
  ELSE validateSequentialPadded(v, padding)

\* next, err := nc.FindNextVersion(existingVersions)
FindNextVersion(pattern, padding, versions) ==
  /\ npc = "idle"
  /\ npc' = "found"
  /\ ncPattern' = pattern
  /\ ncPadding' = padding
  /\ existingVersions' = versions
  /\ nextVersion' = FindNextVersionOf(pattern, padding, versions)
  /\ UNCHANGED outsideNaming

\* The next call, with another configuration or other files
NamingReset ==
  /\ npc = "found"
  /\ npc' = "idle"
  /\ ncPattern' = ""
  /\ ncPadding' = 0
  /\ existingVersions' = <<>>
  /\ nextVersion' = <<>>
  /\ UNCHANGED outsideNaming

NamingNext ==
  \/ \E pattern \in Patterns, padding \in Paddings, n \in 0..MaxExisting :
        \E versions \in [1..n -> ExistingPool] :
          FindNextVersion(pattern, padding, versions)
  \/ NamingReset

NamingSpec == Init /\ [][NamingNext]_vars

\* ---------------------------------------------------------------- claims

Holders == {d \in Drivers : pc[d] = "holding"}

\* C1: under the lock-table protocol at most one driver at a time is in the holding
\* state (Lock returned success, Unlock not yet called), for every interleaving of
\* the cleanup, check and insert steps and every passage of time.
C1_AtMostOneHolder == Cardinality(Holders) <= 1

LockReturns(d) == pc[d] \in InCall /\ pc'[d] \notin InCall

\* C2: a Lock that returns while another driver, holder since before the call
\* began, still holds a live row does not return success, and returns LockTimeout
\* unless its context was cancelled; a Lock begun when every other driver is idle
\* (after their Unlock) and not disturbed or cancelled returns success.
C2_LockMutualExclusion ==
  [][\A b \in Drivers : LockReturns(b) =>
        /\ Blocked(b) => /\ result'[b] # "ok"
                         /\ (result'[b] = "timeout" \/ cancelled[b])
        /\ (alone[b] /\ ~cancelled[b]) => result'[b] = "ok"]_vars

C2_Witness ==
  \E a, b \in Drivers :
    /\ a # b
    /\ timedOutBlocked[b]
    /\ result[a] = "unlocked"
    /\ pc[a] = "idle"
    /\ alone[b]
    /\ pc[b] = "holding"

UnlockReturns(d) == pc[d] = "holding" /\ pc'[d] = "idle"

ReturnedFrom(o) == epc = "idle" /\ op = o /\ opResult # "none"

OpReturned == epc = "idle" /\ opResult # "none"

\* The engine is between its own successful Lock and its Unlock, and the
\* driver's lock is its own.
HoldsLock == acquired /\ unlockCalls = 0 /\ locked /\ ~extHolds

\* A step that performs Driver.Record or Driver.Remove on the bookkeeping table
BookkeepingStep == epc = "record" /\ epc' = "commit"

C6_LockFailure ==
  /\ (OpReturned /\ opResult = "LockTimeout") =>
        /\ lockCalls = 1
        /\ ~acquired
        /\ bodiesRun = <<>>
        /\ applied = startApplied
  /\ (OpReturned /\ lockErr /\ ~skipLock /\ ~initErr) => opResult = "LockTimeout"
  /\ lockCalls <= 1

C6_Witness ==
  /\ OpReturned
  /\ opResult = "LockTimeout"
  /\ lockCalls = 1
  /\ extHolds
  /\ applied # {}
  /\ applied = startApplied

\* The migrations pending when the operation began, in natural order
PendingAtStart == SortSet(RegVersions \ AppliedVersions(startApplied))

\* C7: a successful Up applies every registered migration whose Version is not
\* in the applied set exactly once, in natural version order, each in its own
\* transaction, and applies no migration that is already applied.
C7_UpAppliesPendingInOrder ==
  /\ epc = "body" => txBody = NoVersion
  /\ (ReturnedFrom("Up") /\ opResult = "ok") =>
        /\ {bodiesRun[i] : i \in DOMAIN bodiesRun} = RegVersions \ AppliedVersions(startApplied)
        /\ \A i, j \in DOMAIN bodiesRun : i < j => NaturalLess(bodiesRun[i], bodiesRun[j])
        /\ bodiesRun = PendingAtStart
        /\ AppliedVersions(applied) = RegVersions
        /\ \A i \in DOMAIN bodiesRun : bodiesRun[i] \in schema

C7_Witness ==
  /\ ReturnedFrom("Up")
  /\ opResult = "ok"
  /\ AppliedVersions(startApplied) = {V1}
  /\ bodiesRun = <<V2, V10>>

\* C8: if the k-th pending migration fails during Up, the k-1 migrations before
\* it stay committed and recorded, the failing one and all later ones are
\* neither committed nor recorded, and the MigrationError names the failing
\* Version.
C8_UpPartialFailure ==
  (ReturnedFrom("Up") /\ opResult = "MigrationError") =>
    LET k == Len(bodiesRun)
    IN /\ k >= 1
       /\ bodiesRun = Take(PendingAtStart, k)
       /\ errVersion = PendingAtStart[k]
       /\ \A i \in 1..Len(PendingAtStart) :
            IF i < k
            THEN /\ PendingAtStart[i] \in schema
                 /\ PendingAtStart[i] \in AppliedVersions(applied)
            ELSE /\ PendingAtStart[i] \notin schema
                 /\ PendingAtStart[i] \notin AppliedVersions(applied)

\* C9: for every migration the effects of its body and the matching
\* bookkeeping change commit together or not at all: in every reachable state
\* the committed bodies are exactly the recorded versions.
C9_BodyAndRecordAtomic == \A v \in RegVersions : v \in schema <=> v \in AppliedVersions(applied)

\* C10: after Up has returned success, a second Up on the same registry runs no
\* migration body, leaves the applied set (versions, checksums, AppliedAt)
\* unchanged, and returns success (LockTimeout only while another process holds
\* the lock).
C10_UpIdempotent ==
  (ReturnedFrom("Up") /\ prevUpOk) =>
    /\ bodiesRun = <<>>
    /\ applied = startApplied
    /\ opResult \in {"ok", "LockTimeout"}
    /\ opResult = "LockTimeout" => (~skipLock /\ lockCalls = 1 /\ ~acquired)

C10_Witness ==
  /\ ReturnedFrom("Up")
  /\ prevUpOk
  /\ opResult = "ok"
  /\ bodiesRun = <<>>
  /\ AppliedVersions(applied) = RegVersions
  /\ \E r \in applied : r.appliedAt < now

\* The versions pending when the operation began
PendingSetAtStart == RegVersions \ AppliedVersions(startApplied)

Elems(q) == {q[i] : i \in DOMAIN q}

\* C11: UpSteps(n) with n > 0 applies the first min(n, number of pending)
\* pending migrations in natural order and then stops; UpSteps(n) with n <= 0
\* runs no migration body and leaves the applied set unchanged.
C11_UpStepsLimit ==
  (ReturnedFrom("UpSteps") /\ opResult = "ok") =>
    IF steps <= 0
    THEN bodiesRun = <<>> /\ applied = startApplied
    ELSE /\ Len(bodiesRun) = Min(steps, Cardinality(PendingSetAtStart))
         /\ Elems(bodiesRun) \subseteq PendingSetAtStart
         /\ \A i, j \in DOMAIN bodiesRun : i < j => NaturalLess(bodiesRun[i], bodiesRun[j])
         /\ \A v \in PendingSetAtStart \ Elems(bodiesRun) :
              \A i \in DOMAIN bodiesRun : NaturalLess(bodiesRun[i], v)
         /\ AppliedVersions(applied) = AppliedVersions(startApplied) \cup Elems(bodiesRun)
         /\ \A r \in startApplied : r \in applied

C11_Witness ==
  /\ ReturnedFrom("UpSteps")
  /\ opResult = "ok"
  /\ steps > Cardinality(PendingSetAtStart)
  /\ AppliedVersions(startApplied) = {V1, V2}
  /\ bodiesRun = <<V10>>

C11_WitnessNoOp ==
  /\ ReturnedFrom("UpSteps")
  /\ opResult = "ok"
  /\ steps < 0
  /\ startApplied # {}
  /\ PendingSetAtStart # {}
  /\ bodiesRun = <<>>

\* AppliedAt of version v in the bookkeeping table as the operation found it
AppliedAtStart(v) == (CHOOSE r \in startApplied : r.version = v).appliedAt

\* C12: Down(n) rolls back exactly the min(n, number of applied) most recently
\* applied migrations, newest first by AppliedAt and regardless of their
\* natural version order, and leaves all older Applied records untouched.
C12_DownNewestFirst ==
  (ReturnedFrom("Down") /\ opResult = "ok") =>
    /\ Len(bodiesRun) = (IF steps <= 0 THEN 0 ELSE Min(steps, Cardinality(startApplied)))
    /\ Cardinality(Elems(bodiesRun)) = Len(bodiesRun)
    /\ Elems(bodiesRun) \subseteq AppliedVersions(startApplied)
    /\ applied = {r \in startApplied : r.version \notin Elems(bodiesRun)}
    /\ \A i, j \in DOMAIN bodiesRun :
         i < j => AppliedAtStart(bodiesRun[i]) >= AppliedAtStart(bodiesRun[j])
    /\ \A r \in applied : \A i \in DOMAIN bodiesRun :
         r.appliedAt <= AppliedAtStart(bodiesRun[i])

C12_Witness ==
  /\ ReturnedFrom("Down")
  /\ opResult = "ok"
  /\ bodiesRun = <<V2>>
  /\ AppliedVersions(applied) = {V1, V10}
  /\ \A r \in applied : r.appliedAt < AppliedAtStart(V2)

\* Reset has loaded the applied records and has not visited any yet
ResetPlanned == op = "Reset" /\ epc = "next" /\ bodiesRun = <<>>

\* C13: after any sequence of Up, UpSteps and Down calls, the order in which a
\* following Reset visits Versions is exactly the reverse of the order of the
\* successful Record calls whose records are still present, for every AppliedAt
\* value the drivers can assign, equal timestamps included.
C13_ResetReversesRecordOrder == ResetPlanned => queue = Reverse(recordLog)

DownReturned == OpReturned /\ op \in {"Down", "Reset"}

\* Migration m is registered with a down callback or down SQL
DownBodyPresent(m) == m.downFunc \/ m.downSQL # NoText

\* The operation stopped in front of version v: v's record is as it was, only
\* the records rolled back before it are gone, and they were at least as new.
StoppedBefore(v) ==
  /\ v \notin Elems(bodiesRun)
  /\ \E r \in startApplied :
       /\ r.version = v
       /\ r \in applied
       /\ \A i \in DOMAIN bodiesRun : AppliedAtStart(bodiesRun[i]) >= r.appliedAt
  /\ applied = {r \in startApplied : r.version \notin Elems(bodiesRun)}

\* C14: during Down, an applied Version with no registered Migration makes the
\* operation fail with MigrationNotFound, and a registered Migration without a
\* down body makes it fail with a no-rollback error; in both cases that Applied
\* record is not removed and no older record is touched.
C14_DownLookupErrors ==
  /\ (DownReturned /\ opResult = "MigrationNotFound") =>
        /\ errVersion \notin RegVersions
        /\ StoppedBefore(errVersion)
  /\ (DownReturned /\ opResult = "NoRollback") =>
        /\ errVersion \in RegVersions
        /\ ~DownBodyPresent(MigrationOf(errVersion))
        /\ StoppedBefore(errVersion)
  /\ (DownReturned /\ opResult = "MigrationError") =>
        /\ errVersion \in RegVersions
        /\ DownBodyPresent(MigrationOf(errVersion))
  /\ DownReturned =>
        \A i \in DOMAIN bodiesRun :
          /\ bodiesRun[i] \in RegVersions
          /\ DownBodyPresent(MigrationOf(bodiesRun[i]))

C14_Witness ==
  /\ DownReturned
  /\ opResult = "MigrationNotFound"
  /\ errVersion = V2
  /\ bodiesRun = <<V10>>
  /\ AppliedVersions(applied) = {V1, V2}

C14_WitnessNoRollback ==
  /\ DownReturned
  /\ opResult = "NoRollback"
  /\ errVersion = V2
  /\ bodiesRun = <<V10>>
  /\ AppliedVersions(applied) = {V1, V2}

AllHaveDown == \A m \in Registered : DownBodyPresent(m)

\* C15: for a registry in which every migration has a down body, Up followed by
\* Reset (or by one Down(1) per applied migration) leaves the applied set
\* empty, and a following Up applies all migrations again.
C15_RoundTrip ==
  AllHaveDown =>
    /\ (ReturnedFrom("Reset") /\ opResult = "ok") =>
          /\ applied = {}
          /\ Elems(bodiesRun) = AppliedVersions(startApplied)
          /\ Len(bodiesRun) = Cardinality(startApplied)
    /\ (ReturnedFrom("Down") /\ opResult = "ok" /\ steps >= 1 /\ startApplied # {}) =>
          /\ Cardinality(applied) = Cardinality(startApplied) - Min(steps, Cardinality(startApplied))
          /\ applied \subseteq startApplied
    /\ (ReturnedFrom("Up") /\ opResult = "ok" /\ startApplied = {}) =>
          /\ bodiesRun = Sorted
          /\ AppliedVersions(applied) = RegVersions

C15_Witness ==
  /\ ReturnedFrom("Reset")
  /\ opResult = "ok"
  /\ prevUpOk
  /\ AppliedVersions(startApplied) = RegVersions
  /\ Len(bodiesRun) = Len(registry)
  /\ applied = {}

\* ----------------------------------------------------- registry claims
\* C16: Status reports each registered migration as Pending when its Version
\* is not in the applied set, Applied when it is in the set with an equal
\* checksum, Modified when it is in the set with a different checksum, and
\* reports every Applied record whose Version is not registered as Modified.
C16_StatusTable ==
  /\ \A m \in Registered :
       LET entries == {e \in Status : e.version = m.version}
           inSet == \E r \in applied : r.version = m.version
           equal == \E r \in applied : r.version = m.version /\ r.checksum = Checksum(m)
       IN /\ Cardinality(entries) = 1
          /\ \A e \in entries :
               /\ e.status = "pending" <=> ~inSet
               /\ e.status = "applied" <=> (inSet /\ equal)
               /\ e.status = "modified" <=> (inSet /\ ~equal)
  /\ \A r \in applied :
       r.version \notin RegVersions =>
         {e \in Status : e.version = r.version} = {[version |-> r.version, status |-> "modified"]}
  /\ \A e \in Status : e.version \in RegVersions \cup AppliedVersions(applied)

C16_Witness ==
  /\ RegVersions = {V007}
  /\ [version |-> V007, status |-> "modified"] \in Status
  /\ [version |-> VAnything, status |-> "modified"] \in Status

C16_WitnessAppliedPending ==
  /\ [version |-> V007, status |-> "applied"] \in Status
  /\ [version |-> VAnything, status |-> "pending"] \in Status

\* The migration, as registered at the time, that version v's record was written from
AppliedOrigin(v) == CHOOSE m \in appliedFrom : m.version = v

DriftReported(m) ==
  /\ StatusOf(m) = "modified"
  /\ [version |-> m.version, status |-> "modified"] \in Status
  /\ [kind |-> "ChecksumMismatch", version |-> m.version] \in QueenValidate
  /\ \A f \in QueenValidate : f.kind # "ok"

TagChanged(m, m0) ==
  /\ m.manualChecksum # NoText
  /\ m0.manualChecksum # NoText
  /\ m.manualChecksum # m0.manualChecksum

\* C17 (as stated): if the content of a registered migration is changed after
\* it was applied (its SQL text is edited, or its ManualChecksum is changed from
\* one tag to another), Validate returns ChecksumMismatch for that Version and
\* Status reports it as Modified.
C17_DriftDetected ==
  \A m \in Registered :
    m.version \in AppliedVersions(applied) =>
      LET m0 == AppliedOrigin(m.version)
      IN (m.upSQL # m0.upSQL \/ m.downSQL # m0.downSQL \/ TagChanged(m, m0))
           => DriftReported(m)

\* C17 (amended): if a migration's ManualChecksum is changed from one tag to
\* another, or a migration without ManualChecksum has its SQL edited so that
\* the whitespace-normalized UpSQL followed by the whitespace-normalized
\* DownSQL is a different text, Validate returns ChecksumMismatch for that
\* Version and Status reports it as Modified.
C17_DriftDetectedByChecksum ==
  \A m \in Registered :
    m.version \in AppliedVersions(applied) =>
      LET m0 == AppliedOrigin(m.version)
          sqlOnly(x) == x.manualChecksum = NoText /\ (x.upSQL # NoText \/ x.downSQL # NoText)
          text(x) == NormalizeWhitespace(x.upSQL) \o NormalizeWhitespace(x.downSQL)
      IN (TagChanged(m, m0) \/ (sqlOnly(m) /\ sqlOnly(m0) /\ text(m) # text(m0)))
           => DriftReported(m)

C17_Witness ==
  \E m \in Registered :
    /\ m.version \in AppliedVersions(applied)
    /\ AppliedOrigin(m.version).manualChecksum = TagV1
    /\ m.manualChecksum = TagV2
    /\ DriftReported(m)

C17_WitnessSQL ==
  \E m \in Registered :
    /\ m.version \in AppliedVersions(applied)
    /\ m.manualChecksum = NoText
    /\ AppliedOrigin(m.version).manualChecksum = NoText
    /\ AppliedOrigin(m.version).upSQL = <<"x">>
    /\ m.upSQL = <<"x", "y">>
    /\ m.downSQL = AppliedOrigin(m.version).downSQL
    /\ DriftReported(m)

\* C18: Add of a migration whose Version is already registered returns
\* VersionConflict and leaves the registry as it was: the first migration stays
\* registered under that Version and the number of registered migrations does
\* not grow.
C18_AddDuplicate ==
  /\ \A i, j \in DOMAIN registry : registry[i].version = registry[j].version => i = j
  /\ \A m \in Candidates :
       (\E i \in DOMAIN registry : registry[i].version = m.version) =>
         /\ "VersionConflict" \in AddErrors(registry, m)
         /\ (\A i \in DOMAIN m.version : m.version[i] \in IdentChars)
              /\ m.name # NoText /\ Len(m.name) <= MaxNameLen
              /\ (\A i \in DOMAIN m.name : m.name[i] \in IdentChars)
              /\ (m.upSQL # NoText \/ m.upFunc)
              => AddErrors(registry, m) = {"VersionConflict"}
         /\ AddRegistry(registry, m) = registry

C18_Witness ==
  /\ Len(registry) = 1
  /\ registry[1].version = V007
  /\ \E m \in Candidates :
       /\ m.version = V007
       /\ m # registry[1]
       /\ AddErrors(registry, m) = {"VersionConflict"}
       /\ AddRegistry(registry, m) = registry

C20_AnyVersionWithoutPattern ==
  \A m \in Candidates :
    (/\ m.version # NoText
     /\ \A i \in DOMAIN m.version : m.version[i] \notin Spaces
     /\ Validate(M(V007, m.name, m.upSQL, m.downSQL, m.upFunc, m.downFunc, m.manualChecksum)) = "ok"
     /\ ~VersionRegistered(registry, m.version))
      => AddErrors(registry, m) = {}

\* -------------------------------------------------- comparator claims
\* The orders in which the elements of q can have been inserted
PermsOf(q) == {[i \in DOMAIN q |-> q[f[i]]] : f \in SeqsOf(DOMAIN q)}

\* C21: whatever the order in which the migrations were added, Sorted() is the
\* same sequence, and of two distinct registered Versions exactly one orders
\* before the other.
C21_SortedIndependentOfInsertion ==
  /\ \A a, b \in RegVersions : a # b => (VersionLess(a, b) # VersionLess(b, a))
  /\ sortedView # NotCached =>
       \A p \in PermsOf(VersionsOf(registry)) : SortVersions(p) = sortedView

\* C21 witness: a registry holding both "1" and "01", added in an order that is
\* not the sorted one, has been sorted
C21_Witness ==
  /\ {V1, V01} \subseteq RegVersions
  /\ Len(registry) = MaxOrder
  /\ sortedView # NotCached
  /\ sortedView # VersionsOf(registry)

DigitsOnly(v) == \A i \in DOMAIN v : IsDigit(v[i])

\* C22: digit runs are compared by integer value: "1" < "2" < "10" < "100",
\* "user_1" < "user_2" < "user_10", a sorted view never has a larger number
\* before a smaller one, and the registry filled as 10, 2, 1, 100 is sorted as
\* 1, 2, 10, 100.
C22_NumericOrder ==
  /\ VersionLess(V1, V2) /\ VersionLess(V2, V10) /\ VersionLess(V10, V100)
  /\ VersionLess(User1, User2) /\ VersionLess(User2, User10)
  /\ sortedView # NotCached =>
       /\ \A i, j \in DOMAIN sortedView :
            (i < j /\ DigitsOnly(sortedView[i]) /\ DigitsOnly(sortedView[j]))
              => NumValue(sortedView[i]) <= NumValue(sortedView[j])
       /\ VersionsOf(registry) = <<V10, V2, V1, V100>>
            => sortedView = <<V1, V2, V10, V100>>

\* C22 witness: the registry filled as 10, 2, 1, 100 has been sorted
C22_Witness ==
  /\ VersionsOf(registry) = <<V10, V2, V1, V100>>
  /\ sortedView = <<V1, V2, V10, V100>>

\* ------------------------------------------------------ lock claims II
\* Driver d has no live row of its own in the lock table
HoldsNoLock(d) == ~\E r \in lockTable : r.owner = d /\ CheckActive(r)

\* C23: an Unlock on a driver that holds no lock (never acquired, already
\* released, or its row expired or gone) returns without error and leaves every
\* row of another owner in place, and a second Unlock changes nothing more.
C23_UnlockNotHolder ==
  [][\A d \in Drivers :
       ((UnlockNotHeld(d) \/ Unlock(d)) /\ HoldsNoLock(d)) =>
          /\ result'[d] = "unlocked"
          /\ \A r \in lockTable : r.owner # d => r \in lockTable'
          /\ AfterUnlock(lockTable', d) = lockTable']_vars

\* C23 for the tables with an owner_id column
C23_UnlockNotHolderOwnerId ==
  [][\A d \in Drivers :
       (family = "cockroachdb" /\ (UnlockNotHeld(d) \/ Unlock(d)) /\ HoldsNoLock(d)) =>
          /\ result'[d] = "unlocked"
          /\ \A r \in lockTable : r.owner # d => r \in lockTable'
          /\ AfterUnlock(lockTable', d) = lockTable']_vars

\* C25: a Lock whose context was cancelled while it was in its retry/backoff
\* loop returns the context's cancellation error, neither success nor
\* LockTimeout, and the caller has no row in the lock table afterwards.
C25_CancelledLockReturnsCancellation ==
  [][\A d \in Drivers : (LockReturns(d) /\ cancelled[d]) =>
        /\ result'[d] = "cancelled"
        /\ \A r \in lockTable' : r.owner # d]_vars

\* C25, the part about acquiring: a cancelled Lock does not return success and
\* leaves no row of the caller
C25_CancelledLockAcquiresNothing ==
  [][\A d \in Drivers : (LockReturns(d) /\ cancelled[d]) =>
        /\ result'[d] # "ok"
        /\ \A r \in lockTable' : r.owner # d]_vars

\* C28: a Lock call whose context is not cancelled returns LockTimeout no later
\* than its deadline, call time plus timeout: it is then never asleep in a
\* backoff that ends after the deadline.
C28_NoSleepPastDeadline ==
  \A d \in Drivers :
    (pc[d] = "sleep" /\ ~cancelled[d]) => wakeAt[d] <= start[d] + timeout[d]

\* ---------------------------------------------------------- Exec claims
\* C24: a returned Exec whose transaction began has called Commit exactly when
\* the callback returned nil, and then returns Commit's result; when the
\* callback returned an error it has called Rollback, not Commit, returns the
\* callback's error whatever Rollback returned, and the committed rows are those
\* from before the call.
C24_ExecCommitOrRollback ==
  (xpc = "done" /\ fnErr # "none") =>
     /\ commitCalls = (IF fnErr = "nil" THEN 1 ELSE 0)
     /\ rollbackCalls = (IF fnErr = "nil" THEN 0 ELSE 1)
     /\ fnErr = "nil" => /\ execResult \in {"nil", "ErrCommit"}
                         /\ execResult = "ErrCommit" => dbRows = rowsAtBegin
     /\ fnErr # "nil" => /\ execResult = fnErr
                         /\ dbRows = rowsAtBegin
     /\ txWrites = {}

\* C24 witness: the callback wrote a row and failed, and the rollback failed too
C24_Witness ==
  /\ xpc = "done"
  /\ fnErr = "ErrBody"
  /\ rollbackErr = "ErrRollback"
  /\ execResult = "ErrBody"
  /\ rowsAtBegin # {}

\* C24 witness: the callback returned nil and its rows are committed
C24_WitnessCommit ==
  /\ xpc = "done"
  /\ fnErr = "nil"
  /\ execResult = "nil"
  /\ dbRows # rowsAtBegin

\* ------------------------------------------------ session lock claims
\* C26: Lock returns LockTimeout only if the lock stayed unavailable for the
\* whole timeout: it has not returned LockTimeout when the holder released the
\* lock at or after the call and before the deadline, call time plus timeout.
C26_TimeoutOnlyAfterWholeTimeout ==
  (spc = "idle" /\ sResult = "timeout") =>
     ~(sStart <= otherFreedAt /\ otherFreedAt < sStart + sTimeout)

\* C27: a driver with a session-bound lock issues the acquire and the release on
\* one and the same connection, so that after Unlock no session of the process
\* holds the lock.
C27_SameConnection ==
  (spc = "idle" /\ sResult = "unlocked") =>
     /\ releasedOn = acquiredOn
     /\ sHeldBy \notin Conns

\* C27 for the driver that keeps a dedicated connection in d.conn
C27_SameConnectionPinned ==
  (sKind = "mysql" /\ spc = "idle" /\ sResult = "unlocked") =>
     /\ releasedOn = acquiredOn
     /\ sHeldBy \notin Conns

\* ------------------------------------------------------ checksum claims
\* C29: a SQL body and any body obtained from it by changing only whitespace
\* have the same checksum.
C29_ChecksumIgnoresWhitespace ==
  Calculate(sqlReformatted, NoText) = Calculate(sqlBody, NoText)

\* ----------------------------------------------------------- CLI claims
\* The setting the documented priority gives: the flag if given, else the
\* environment variable if set, else the value of the config file, else the
\* flag's default
Effective(k) ==
  IF flags[k] # NotGiven THEN flags[k]
  ELSE IF environ[k] # "" THEN environ[k]
  ELSE IF useConfig /\ configFile[k] # "" THEN configFile[k]
  ELSE FlagDefault(k)

\* C30: for each of driver, DSN and table name the loaded setting is the flag's
\* value if the flag was given, otherwise the environment variable if set,
\* otherwise the value of the config file.
C30_FlagsEnvFile ==
  cpc = "loaded" => \A k \in Settings : appConfig[k] = Effective(k)

\* C30, the part about flags for driver and DSN: a given flag is never replaced
C30_FlagsWin ==
  cpc = "loaded" =>
    \A k \in {"driver", "dsn"} : flags[k] # NotGiven => appConfig[k] = flags[k]

\* --------------------------------------------------- CLI command claims
\* The selected environment of .queen.yaml has require_confirmation: true
ConfirmationDemanded ==
  /\ kUseConfig
  /\ kEnv \in DOMAIN fileEnvs
  /\ fileEnvs[kEnv]
  /\ ~yes

\* C31: when the selected environment has require_confirmation: true and
\* --yes is not given, up and down open no database connection and run no
\* migration unless the user was asked and gave an affirmative answer
C31_ConfirmBeforeDatabase ==
  (ConfirmationDemanded /\ (dbOpened \/ migrated)) =>
    (prompted /\ Affirmative(answer))

\* ----------------------------------------------------- lock claims III
\* C32: on the tables without an owner column, when A's row expired and was
\* cleaned up and B then acquired the lock, A's Unlock leaves B's row in place
C32_UnlockLeavesNewHolder ==
  [][\A a \in Drivers :
       (/\ family = "clickhouse"
        /\ UnlockReturns(a)
        /\ \A r \in lockTable : r.owner # a) =>
          \A r \in lockTable : r \in lockTable']_vars

\* C33: the row written by a successful acquire has ExpiresAt equal to the
\* time of the insert plus the timeout, however long the acquirer waited
C33_ExpiresAtFromInsert ==
  [][\A d \in Drivers : (LockReturns(d) /\ result'[d] = "ok") =>
        [owner |-> d, expiresAt |-> now + timeout[d]] \in lockTable']_vars

\* C33, for an acquire that did not wait: the insert happens at the time of
\* the call and the row expires one timeout later
C33_ExpiresAtFromCall ==
  [][\A d \in Drivers : (LockReturns(d) /\ result'[d] = "ok") =>
        [owner |-> d, expiresAt |-> start[d] + timeout[d]] \in lockTable']_vars

\* C34: the cleanup step deletes only rows whose ExpiresAt is strictly earlier
\* than now: a row that the check step counts as active is never deleted by
\* another driver's cleanup
C34_CleanupSparesActiveRows ==
  [][\A d \in Drivers : Cleanup(d) =>
        \A r \in lockTable : (CheckActive(r) /\ r.owner # d) => r \in lockTable']_vars

\* C35: a holder that stops without calling Unlock does not block for ever:
\* an acquirer that found the holder's live row when it called Lock, whose
\* deadline lies after the row's ExpiresAt and whose context is not cancelled,
\* does not return LockTimeout: its Lock returns success
C35_AbandonedLockExpires ==
  [][\A b \in Drivers :
       (/\ LockReturns(b)
        /\ ~cancelled[b]
        /\ waitingOn[b] # NoDriver
        /\ pc[waitingOn[b]] = "holding"
        /\ expiresAt[waitingOn[b]] < start[b] + timeout[b]) =>
          result'[b] = "ok"]_vars

\* ------------------------------------------------- bookkeeping claims II
\* C36: the bookkeeping table never holds two records for one Version, and a
\* Record for a Version that already has a record leaves that record, with its
\* AppliedAt, as it is
C36_RecordKeepsExistingRecord ==
  [][/\ \A r1, r2 \in applied' : r1.version = r2.version => r1 = r2
     /\ \A m \in Registered : DriverRecord(m) =>
           \A r \in applied : r.version = m.version => r \in applied']_vars

\* C36, the part about the key: at most one record per Version
C36_OneRecordPerVersion ==
  \A r1, r2 \in applied : r1.version = r2.version => r1 = r2

\* ------------------------------------------------------ Migration claims
\* C37: Checksum() of one Migration instance returns the same value on every
\* call, also after UpSQL, DownSQL or ManualChecksum were changed following
\* the first call
C37_ChecksumMemoized ==
  \A i \in DOMAIN returned : returned[i] = returned[1]

C37_Witness ==
  /\ Len(returned) >= 2
  /\ staleCall
  /\ Checksum(inst) # returned[1]

\* C38: when a migration has both a callback and SQL text for a direction,
\* executing that direction runs the callback only and never the SQL text; the
\* SQL text is executed only when no callback is set
C38_CallbackBeforeSql ==
  /\ lastDir = "up" =>
       /\ inst.upFunc => lastRan = {"UpFunc"}
       /\ "UpSQL" \in lastRan => (~inst.upFunc /\ inst.upSQL # NoText)
  /\ lastDir = "down" =>
       /\ inst.downFunc => lastRan = {"DownFunc"}
       /\ "DownSQL" \in lastRan => (~inst.downFunc /\ inst.downSQL # NoText)

C38_Witness ==
  /\ lastDir = "up"
  /\ inst.upFunc
  /\ inst.upSQL # NoText
  /\ lastRan = {"UpFunc"}

\* ------------------------------------------- dedicated connection claims
\* C39: for the MySQL and SQL Server drivers a failed Lock leaves no connection
\* reserved, and after Unlock returns, with nil or with an error, the driver
\* holds no reserved connection: every connection taken by Lock is back in the
\* pool
C39_ConnectionGivenBack ==
  /\ (pinCall = "Lock" /\ pinResult # "ok") => (dConn = NoConn => inUse = {})
  /\ pinCall = "Unlock" => (dConn = NoConn /\ inUse = {})

\* C39, the part about Lock: a Lock that fails takes no connection out of the
\* pool for longer than the call
C39_FailedLockReservesNothing ==
  [][\A c \in Conns, out \in LockOutcomes :
       (PinLock(c, out) /\ pinResult' # "ok") => (inUse' = inUse /\ dConn' = dConn)]_vars

\* --------------------------------------------------------- naming claims
\* C40: for the sequential and sequential-padded patterns the version returned
\* by FindNextVersion differs from every existing version, is numerically
\* greater than every numeric existing version, and passes Validate of the same
\* NamingConfig
C40_NextVersionFreshAndValid ==
  npc = "found" =>
    /\ \A i \in DOMAIN existingVersions : existingVersions[i] # nextVersion
    /\ \A i \in DOMAIN existingVersions :
          AtoiOk(existingVersions[i]) => Atoi(nextVersion) > Atoi(existingVersions[i])
    /\ NamingValidate(ncPattern, ncPadding, nextVersion)

\* C40 without the validity: the returned version is new and numerically
\* greater than every numeric existing version
C40_NextVersionFresh ==
  npc = "found" =>
    /\ \A i \in DOMAIN existingVersions : existingVersions[i] # nextVersion
    /\ \A i \in DOMAIN existingVersions :
          AtoiOk(existingVersions[i]) => Atoi(nextVersion) > Atoi(existingVersions[i])

====
